---- MODULE Spec2Model ----
(***************************************************************************)
(* Model of the SAP vendor-registration automation (transaction XK01).     *)
(*                                                                         *)
(* AutomacaoSAP.executar runs a fixed pipeline on one thread: it loads the *)
(* vendor record, connects to the SAP GUI scripting engine, builds the     *)
(* modules, and then runs six stage modules interleaved with three calls   *)
(* of SalvarFornecedor.executar.  The remote session is an external actor: *)
(* every remote call may return or raise, and the session handle may       *)
(* become invalid at any moment after the connection was made.             *)
(***************************************************************************)
EXTENDS Integers, Sequences, FiniteSets, TLC

(***************************************************************************)
(* Bounds of the model.                                                    *)
(***************************************************************************)
\* polls a wait loop makes before its timeout elapses
MaxPolls == 2
\* seconds one connection attempt may take on top of the retry sleep
MaxLatency == 1
\* longest timeout handed to _wait_sap_ready, in units of 10 ms
MaxTimeout == 4
\* calls of ManipuladorCamposSAP a stage makes between two of its own steps
MaxOps == 2
\* the statistics stop being followed in the general-data and company
\* stages once they add up to this
MaxWrites == 1
\* entries of the attachment list
MaxAnexos == 2
\* characters of a value written to a field
MaxLen == 2

\* rows of the search dialog of the fiscal domicile
MaxLinhas == 11

(***************************************************************************)
(* Program constants.                                                      *)
(***************************************************************************)
\* AutomacaoSAP._inicializar_conexao: conectar(timeout=30)
ConnectTimeout == 30
\* ConexaoSAP.conectar: time.sleep(1) between attempts
ConnectInterval == 1
\* PreencherEmpresas.__init__: self.empresas = ['BR01', 'BR04', 'BR20']
NumEmpresas == 3
\* _limpar_estado_popups: range(5, 0, -1)
SweepDepth == 5
\* _wait_sap_ready: time.sleep(0.02), in units of 10 ms
PollSleep == 2

\* rows of the dialog read by _selecionar_domicilio_rapido: range(10)
Varredura == 10

NoResult == [success |-> FALSE, prefix |-> "none", detail |-> "none"]

\* ManipuladorCamposSAP.__init__: self._stats
ZeroStats == [python_sucesso |-> 0, sendkeys_sucesso |-> 0, falha |-> 0]

\* imprimir_estatisticas: total = sum(self._stats.values())
Total(st) == st.python_sucesso + st.sendkeys_sucesso + st.falha

NoCall == [op |-> "none"]

\* self.dados['bancario'] before the banking stage has read it
NoRecord == [codigo_banco |-> "", agencia |-> "", conta_corrente |-> ""]

(***************************************************************************)
(* The pipeline positions of AutomacaoSAP.executar, in program order.      *)
(***************************************************************************)
Pipeline ==
    << "connect", "transacao", "gerais", "bancarios", "empresas", "save1",
       "compras", "save2", "anexos", "save3" >>

StageSteps == {"transacao", "gerais", "bancarios", "empresas", "compras", "anexos"}
SaveSteps == {"save1", "save2", "save3"}

\* the checkpoint number of a save position
SaveIndex(s) == CASE s = "save1" -> 1 [] s = "save2" -> 2 [] s = "save3" -> 3

\* the message AutomacaoSAP.executar returns when a step yields False
FalseMessage(s) ==
    CASE s = "transacao" -> "Falha ao entrar na transação XK01"
      [] s = "gerais"    -> "Falha ao preencher dados gerais"
      [] s = "bancarios" -> "Falha ao preencher dados bancários"
      [] s = "empresas"  -> "Falha ao preencher empresas"
      [] s = "save1"     -> "Falha no SAVE 1/3 (Empresas)"
      [] s = "compras"   -> "Falha ao preencher compras"
      [] s = "save2"     -> "Falha no SAVE 2/3 (Compras)"
      [] s = "anexos"    -> "Falha ao adicionar anexos"
      [] s = "save3"     -> "Falha no SAVE 3/3 (Anexos)"

\* the texts EntrarTransacao raises as EntrarTransacaoError
EntrarTransacaoErrors ==
    { "Campo de transação não encontrado",
      "SAP não ficou pronto após 10s ao abrir XK01",
      "Tela XK01 não carregou completamente - elementos críticos ausentes",
      "Erro inesperado ao abrir transação XK01",
      "Popup de seleção de tipo não apareceu após 8s",
      "Não foi possível selecionar fornecedor nacional",
      "Não foi possível confirmar popup",
      "Erro ao selecionar fornecedor nacional" }

VARIABLES
    pc,            \* position of AutomacaoSAP.executar
    result,        \* the (sucesso, mensagem) tuple returned, NoResult before
    session,       \* ConexaoSAP.session: "null" or "sess"
    alive,         \* the session handle is valid (remote application runs)
    deadAccess,    \* a remote access was made on an invalid handle
    elapsed,       \* conectar: time.time() - inicio, in seconds
    tries,         \* conectar: attempts made
    log,           \* pipeline steps begun, each with its reported outcome
    opTick,        \* flips on every operation issued to the remote session
    stageCommits,  \* presses of btn[11] made by stage modules
    ckptCommits,   \* presses of btn[11] made by SalvarFornecedor
    ckptCalls,     \* invocations of SalvarFornecedor.executar
    committed,     \* checkpoints whose btn[11] press succeeded
    empIdx,        \* PreencherEmpresas: companies configured so far
    empPc,         \* PreencherEmpresas: position inside the stage
    ckPc,          \* SalvarFornecedor.executar: position
    ckTrace,       \* SalvarFornecedor.executar: states visited
    ckModal,       \* SalvarFornecedor: _existe_popup saw wnd[1]
    ckConfirms,    \* SalvarFornecedor: presses of wnd[1]/tbar[0]/btn[0]
    ckEdit,        \* SalvarFornecedor: outcome of the btn[6] press
    ckRet,         \* SalvarFornecedor.executar: value returned
    ckFault,       \* SalvarFornecedor: a Busy read of the settle loop or the
                   \* findById("wnd[0]") check raised
    ckErrors,      \* SalvarFornecedor: the remote operations of this invocation
                   \* that raised: "press", "confirm", "busy", "root"
    polls,         \* polls made by the wait loop in progress
    stats,         \* ManipuladorCamposSAP._stats
    lastCall,      \* the last call of ManipuladorCamposSAP or GerenciadorPopups
                   \* made by the stage in progress
    ops,           \* calls of them made by the stage since its last step that
                   \* is modelled by name
    bankPc,        \* PreencherDadosBancarios: position inside the stage
    bankRec,       \* PreencherDadosBancarios: self.dados['bancario'] as read
    bankOps,       \* PreencherDadosBancarios: the calls made by the stage
    anxPc,         \* GerenciadorAnexosSAP: position inside the stage
    anxN,          \* adicionar_anexos: len(todos_anexos)
    anxSucesso,    \* adicionar_anexos: sucesso
    anxFalha,      \* adicionar_anexos: falha
    anxFail,       \* the step at which the entry in progress failed
    sweepLog,      \* _limpar_estado_popups: the indices tried by the last call
    sweepHits,     \* _limpar_estado_popups: the windows that took sendVKey(12)
    wTimeout,      \* _wait_sap_ready: the timeout of the call, in 10 ms
    wBusy,         \* what session.Busy gives at each instant of the clock
    wClock,        \* _wait_sap_ready: time.time() since the call, in 10 ms
    wRet           \* _wait_sap_ready: value returned, "none" while it runs

\* the variables of a call of _wait_sap_ready taken on its own
waitVars == << wTimeout, wBusy, wClock, wRet >>

\* the variables of ManipuladorCamposSAP and of the calls made to it
engineVars == << stats, lastCall, ops >>

\* the variables local to the stage modules
anxVars == << anxPc, anxN, anxSucesso, anxFalha, anxFail, sweepLog, sweepHits >>

stageVars == << bankPc, bankRec, bankOps, anxVars >>

vars == << pc, result, session, alive, deadAccess, elapsed, tries, log, opTick, stageCommits,
           ckptCommits, ckptCalls, committed, empIdx, empPc, ckPc, ckTrace,
           ckModal, ckConfirms, ckEdit, ckRet, ckFault, ckErrors, polls,
           engineVars, waitVars, stageVars >>

\* no call of _wait_sap_ready is being followed
WaitIdle ==
    /\ wTimeout = 0
    /\ wBusy = [t \in 0..MaxTimeout |-> "busy"]
    /\ wClock = 0
    /\ wRet = "none"

\* the state in which AutomacaoSAP.executar is entered
InitRun ==
    /\ pc = "load"
    /\ result = NoResult
    /\ session = "null"
    /\ alive = TRUE
    /\ deadAccess = FALSE
    /\ elapsed = 0
    /\ tries = 0
    /\ log = << >>
    /\ opTick = 0
    /\ stageCommits = 0
    /\ ckptCommits = 0
    /\ ckptCalls = 0
    /\ committed = {}
    /\ empIdx = 0
    /\ empPc = "idle"
    /\ ckPc = "idle"
    /\ ckTrace = << >>
    /\ ckModal = FALSE
    /\ ckConfirms = 0
    /\ ckEdit = "none"
    /\ ckRet = "none"
    /\ ckFault = FALSE
    /\ ckErrors = {}
    /\ polls = 0
    /\ stats = ZeroStats
    /\ lastCall = NoCall
    /\ ops = 0
    /\ bankPc = "idle"
    /\ bankRec = NoRecord
    /\ bankOps = << >>
    /\ anxPc = "idle"
    /\ anxN = 0
    /\ anxSucesso = 0
    /\ anxFalha = 0
    /\ anxFail = "none"
    /\ sweepLog = << >>
    /\ sweepHits = {}

Init == InitRun /\ WaitIdle

(***************************************************************************)
(* Helpers of the orchestrator.                                            *)
(***************************************************************************)
Index(s) == CHOOSE i \in 1..Len(Pipeline) : Pipeline[i] = s

\* a pipeline that loses the "SAVE 2/3" block after the purchasing stage
SuccessorSkip(s) ==
    IF s = "compras" THEN "anexos"
    ELSE IF Index(s) = Len(Pipeline) THEN "done" ELSE Pipeline[Index(s) + 1]

\* the position executar moves to when step s yields True
Successor(s) ==
    IF Index(s) = Len(Pipeline) THEN "done" ELSE Pipeline[Index(s) + 1]

\* an executar that logs the failure of a step and carries on
AfterFalseContinue(s) ==
    IF Index(s) = Len(Pipeline) THEN "done" ELSE Pipeline[Index(s) + 1]

\* the position executar moves to when step s yields False: "return False, msg"
AfterFalse(s) == "done"

\* an executar that swallows the exception of a step and carries on
AfterRaiseContinue(s) ==
    IF Index(s) = Len(Pipeline) THEN "done" ELSE Pipeline[Index(s) + 1]

\* the position executar moves to when step s raises: the except clauses
\* of executar return
AfterRaise(s) == "done"

\* the tuple executar returns after its last step
SuccessResult ==
    [success |-> TRUE, prefix |-> "AUTOMAÇÃO CONCLUÍDA!", detail |-> ""]

\* the except clauses in the other order: "except Exception" catches all
HandlerGenericFirst(excClass, text) ==
    [success |-> FALSE, prefix |-> "Erro durante a automação", detail |-> text]

\* the except clauses of executar: SAPConnectionError first, then Exception
Handler(excClass, text) ==
    IF excClass = "SAPConnectionError"
    THEN [success |-> FALSE, prefix |-> "Erro de conexão com SAP", detail |-> text]
    ELSE [success |-> FALSE, prefix |-> "Erro durante a automação", detail |-> text]

\* one operation is issued to the remote session
Touch ==
    /\ opTick' = 1 - opTick
    /\ deadAccess' = (deadAccess \/ ~alive)

NoTouch == UNCHANGED << opTick, deadAccess >>

\* step s of the pipeline ends with outcome out ("ok", "false" or "raise");
\* newlog is the log with that outcome recorded
Outcome(s, out, excClass, text, newlog) ==
    /\ log' = newlog
    /\ CASE out = "ok" ->
              /\ pc' = Successor(s)
              /\ result' = IF Successor(s) = "done" THEN SuccessResult ELSE result
         [] out = "false" ->
              /\ pc' = AfterFalse(s)
              /\ result' = [success |-> FALSE, prefix |-> FalseMessage(s), detail |-> ""]
         [] out = "raise" ->
              /\ pc' = AfterRaise(s)
              /\ result' = Handler(excClass, text)

Begun(s) == Append(log, [step |-> s, out |-> "running"])
Ended(out) == [log EXCEPT ![Len(log)].out = out]
Whole(s, out) == Append(log, [step |-> s, out |-> out])

(***************************************************************************)
(* AutomacaoSAP.executar: load the record, connect, build the modules.     *)
(***************************************************************************)
CarregarDados ==
    /\ pc = "load"
    /\ \E ok \in BOOLEAN :
         IF ok
         THEN /\ pc' = "connect"
              /\ UNCHANGED result
         ELSE /\ pc' = "done"
              /\ result' = Handler("Exception", "fornecedor_limpo.json")
    /\ NoTouch
    /\ UNCHANGED << session, alive, elapsed, tries, log, stageCommits,
                    ckptCommits, ckptCalls, committed, empIdx, empPc, ckPc,
                    ckTrace, ckModal, ckConfirms, ckEdit, ckRet, ckFault, ckErrors, polls >>
    /\ UNCHANGED << engineVars, waitVars, stageVars >>

\* ConexaoSAP.conectar: one pass of the retry loop.  A pass that fails may
\* already have stored a session before the failing check.
ConectarTentativa ==
    /\ pc = "connect"
    /\ elapsed < ConnectTimeout
    /\ \E ok \in BOOLEAN, lat \in 0..MaxLatency, s \in {session, "sess"} :
         IF ok
         THEN /\ session' = "sess"
              /\ elapsed' = 0
              /\ tries' = 0
              /\ log' = IF tries = 0 THEN Whole("connect", "ok") ELSE Ended("ok")
              /\ pc' = "init"
         ELSE /\ session' = s
              /\ elapsed' = elapsed + lat + ConnectInterval
              /\ tries' = tries + 1
              /\ log' = IF tries = 0 THEN Begun("connect") ELSE log
              /\ pc' = pc
    /\ Touch
    /\ UNCHANGED << result, alive, stageCommits, ckptCommits, ckptCalls,
                    committed, empIdx, empPc, ckPc, ckTrace, ckModal,
                    ckConfirms, ckEdit, ckRet, ckFault, ckErrors, polls >>
    /\ UNCHANGED << engineVars, waitVars, stageVars >>

\* ConexaoSAP.conectar: the loop ends with the timeout elapsed
ConectarTimeout ==
    /\ pc = "connect"
    /\ elapsed >= ConnectTimeout
    /\ Outcome("connect", "raise", "SAPConnectionError",
               "Não foi possível conectar ao SAP após 30s",
               IF tries = 0 THEN Whole("connect", "raise") ELSE Ended("raise"))
    /\ NoTouch
    /\ UNCHANGED << session, alive, elapsed, tries, stageCommits, ckptCommits,
                    ckptCalls, committed, empIdx, empPc, ckPc, ckTrace,
                    ckModal, ckConfirms, ckEdit, ckRet, ckFault, ckErrors, polls >>
    /\ UNCHANGED << engineVars, waitVars, stageVars >>

\* AutomacaoSAP._inicializar_modulos: ManipuladorCamposSAP loads campos_sap.json
InicializarModulos ==
    /\ pc = "init"
    /\ \E ok \in BOOLEAN :
         IF ok
         THEN /\ pc' = "transacao"
              /\ UNCHANGED result
         ELSE /\ pc' = "done"
              /\ result' = Handler("Exception", "Erro ao carregar campos_sap.json")
    /\ NoTouch
    /\ UNCHANGED << session, alive, elapsed, tries, log, stageCommits,
                    ckptCommits, ckptCalls, committed, empIdx, empPc, ckPc,
                    ckTrace, ckModal, ckConfirms, ckEdit, ckRet, ckFault, ckErrors, polls >>
    /\ UNCHANGED << engineVars, waitVars, stageVars >>

\* the remote application terminates: the session handle becomes invalid
Invalidate ==
    /\ pc \notin {"load", "connect", "done"}
    /\ alive
    /\ alive' = FALSE
    /\ UNCHANGED << pc, result, session, deadAccess, elapsed, tries, log,
                    opTick, stageCommits, ckptCommits, ckptCalls, committed,
                    empIdx, empPc, ckPc, ckTrace, ckModal, ckConfirms, ckEdit,
                    ckRet, ckFault, ckErrors, polls >>
    /\ UNCHANGED << engineVars, waitVars, stageVars >>

(***************************************************************************)
(* Stage modules whose internals do not matter to the orchestrator: each   *)
(* is one step whose outcome is what its executar can yield.               *)
(***************************************************************************)

\* what EntrarTransacao.executar yields: True, or it raises
\* EntrarTransacaoError; the first remote access of a dead session raises
EntrarTransacaoOutcomes ==
    IF alive
    THEN {<< "ok", "" >>} \cup {<< "raise", t >> : t \in EntrarTransacaoErrors}
    ELSE {<< "raise", "Campo de transação não encontrado" >>}

EntrarTransacaoExecutar ==
    /\ pc = "transacao"
    /\ \E o \in EntrarTransacaoOutcomes :
         Outcome("transacao", o[1], "EntrarTransacaoError", o[2],
                 Whole("transacao", o[1]))
    /\ Touch
    /\ UNCHANGED << session, alive, elapsed, tries, stageCommits, ckptCommits,
                    ckptCalls, committed, empIdx, empPc, ckPc, ckTrace,
                    ckModal, ckConfirms, ckEdit, ckRet, ckFault, ckErrors, polls >>
    /\ UNCHANGED << engineVars, waitVars, stageVars >>

\* PreencherDadosGerais.executar ignores the result of every field write and
\* tab selection: it yields False when the record lacks a mandatory field or
\* a secondary-contact dialog misbehaves, whatever the state of the session
PreencherDadosGeraisExecutar ==
    /\ pc = "gerais"
    /\ \E out \in {"ok", "false"} :
         Outcome("gerais", out, "", "", Whole("gerais", out))
    /\ Touch
    /\ UNCHANGED << session, alive, elapsed, tries, stageCommits, ckptCommits,
                    ckptCalls, committed, empIdx, empPc, ckPc, ckTrace,
                    ckModal, ckConfirms, ckEdit, ckRet, ckFault, ckErrors, polls >>
    /\ ops' = 0
    /\ lastCall' = NoCall
    /\ UNCHANGED << stats, waitVars, stageVars >>

\* PreencherCompras.executar catches the PreencherComprasError of its steps
PreencherComprasExecutar ==
    /\ pc = "compras"
    /\ \E out \in (IF alive THEN {"ok", "false"} ELSE {"false"}) :
         Outcome("compras", out, "", "", Whole("compras", out))
    /\ Touch
    /\ UNCHANGED << session, alive, elapsed, tries, stageCommits, ckptCommits,
                    ckptCalls, committed, empIdx, empPc, ckPc, ckTrace,
                    ckModal, ckConfirms, ckEdit, ckRet, ckFault, ckErrors, polls >>
    /\ UNCHANGED << engineVars, waitVars, stageVars >>

(***************************************************************************)
(* PreencherEmpresas.executar: adicionar_empresas configures the three     *)
(* companies and then calls salvar_empresas, which presses btn[11].        *)
(***************************************************************************)

\* a wait loop whose deadline moves with every pass
PolledStuck(p) == p

\* the poll budget left shrinks with every pass: time.sleep advances the
\* clock towards end_time
Polled(p) == p + 1

\* what a remote call can do: return, or raise; a dead session only raises
Calls == IF alive THEN {"ok", "raise"} ELSE {"raise"}

\* what a read of session.Busy can give
BusyReads == IF alive THEN {"free", "busy", "raise"} ELSE {"raise"}

(***************************************************************************)
(* ManipuladorCamposSAP and GerenciadorPopups as the general-data and      *)
(* company stages call them.  A stage is a straight line of such calls;    *)
(* the model lets it make any of them, up to MaxOps, before its next step. *)
(***************************************************************************)

\* the stage in progress is inside code that calls the field engine
EngineStage ==
    \/ pc = "gerais"
    \/ pc = "empresas" /\ empPc \in {"idle", "add"}

\* a read-back test that accepts whatever it reads
VerifiedAlways(texto) == TRUE

\* preencher_campo_texto: "valor_limpo in texto_atual or texto_atual.strip()"
\* for the read-back "same" (holds the value), "other" (other text) or
\* "blank"
Verified(texto) == texto \in {"same", "other"}

\* what the direct write and its read-back can give
DirectResults == IF alive THEN {"same", "other", "blank", "raise"} ELSE {"raise"}

\* the inputs of one call of preencher_campo_texto: the value is blank or
\* not, campos_sap.json has the field or not, the direct write gives
\* `direct`, pressionar_enter is `enter`, sendVKey(0) returns or raises,
\* _preencher_via_sendkeys finds the element and types, or raises.  What a
\* call does not consult is "none".
FieldCases ==
    { c \in [blank : BOOLEAN, locator : BOOLEAN,
              direct : DirectResults \cup {"none"}, enter : BOOLEAN,
              enterKey : Calls \cup {"none"}, fallback : Calls \cup {"none"}] :
        /\ (c.blank \/ ~c.locator) <=> c.direct = "none"
        /\ c.blank => ~c.enter
        /\ ~c.locator => ~c.enter
        /\ (c.enter /\ c.direct \in {"same", "other"}) <=> c.enterKey # "none"
        /\ (c.direct \in {"blank", "raise"} \/ c.enterKey = "raise")
              <=> c.fallback # "none" }

\* an except clause that returns False and counts nothing
ElementNotFoundUncounted == [ret |-> FALSE, py |-> 0, sk |-> 0, fa |-> 0]

\* "except SAPElementNotFoundError": falha += 1, return False
ElementNotFound == [ret |-> FALSE, py |-> 0, sk |-> 0, fa |-> 1]

\* preencher_campo_texto: the value returned and the increments of _stats
PreencherCampoResultado(c) ==
    IF c.blank
    THEN [ret |-> FALSE, py |-> 0, sk |-> 0, fa |-> 0]
    ELSE IF ~c.locator
    THEN ElementNotFound
    ELSE LET py == IF c.direct # "raise" /\ Verified(c.direct) THEN 1 ELSE 0
             direto == py = 1 /\ ~(c.enter /\ c.enterKey = "raise")
         IN  IF direto
             THEN [ret |-> TRUE, py |-> py, sk |-> 0, fa |-> 0]
             ELSE IF c.fallback = "ok"
             THEN [ret |-> TRUE, py |-> py, sk |-> 1, fa |-> 0]
             ELSE [ret |-> FALSE, py |-> py, sk |-> 0, fa |-> 1]

\* an engine whose other methods count their failures
AfterOtherOpCounting(st, ret) ==
    IF ret THEN st ELSE [st EXCEPT !.falha = @ + 1]

\* _stats after a method other than preencher_campo_texto returned ret
AfterOtherOp(st, ret) == st

\* the methods that do not touch _stats: each returns a boolean and catches
\* what the session raises
OtherOps ==
    { "selecionar_combo", "marcar_checkbox", "pressionar_botao",
      "selecionar_aba", "existe_popup", "confirmar_popup", "fechar_popup_esc" }

StageIdle ==
    UNCHANGED << pc, result, session, alive, elapsed, tries, log, stageCommits,
                 ckptCommits, ckptCalls, committed, empIdx, empPc, ckPc,
                 ckTrace, ckModal, ckConfirms, ckEdit, ckRet, ckFault,
                 ckErrors, polls, waitVars, stageVars >>

\* ManipuladorCamposSAP.preencher_campo_texto
PreencherCampoTexto ==
    /\ EngineStage
    /\ ops < MaxOps
    /\ Total(stats) < MaxWrites
    /\ \E c \in FieldCases :
         LET r == PreencherCampoResultado(c) IN
           /\ stats' = [python_sucesso |-> stats.python_sucesso + r.py,
                        sendkeys_sucesso |-> stats.sendkeys_sucesso + r.sk,
                        falha |-> stats.falha + r.fa]
           /\ lastCall' = [op |-> "preencher_campo_texto", case |-> c,
                           ret |-> r.ret, py |-> r.py, sk |-> r.sk, fa |-> r.fa]
           /\ IF c.direct = "none" THEN NoTouch ELSE Touch
    /\ ops' = ops + 1
    /\ StageIdle

\* selecionar_combo, marcar_checkbox, pressionar_botao, selecionar_aba of
\* ManipuladorCamposSAP; existe_popup, confirmar_popup, fechar_popup_esc of
\* GerenciadorPopups
OutraOperacao ==
    /\ EngineStage
    /\ ops < MaxOps
    /\ \E op \in OtherOps, c \in Calls :
         /\ stats' = AfterOtherOp(stats, c = "ok")
         /\ lastCall' = [op |-> op, ret |-> (c = "ok")]
    /\ Touch
    /\ ops' = ops + 1
    /\ StageIdle

(***************************************************************************)
(* PreencherDadosBancarios.executar: preencher_dados_bancarios selects the *)
(* tab, validates the record, writes the bank id and the bank country,     *)
(* runs _buscar_chave_banco and writes the account.                        *)
(***************************************************************************)

\* str.strip() over the values the record takes here
Strip(s) == IF s = " " THEN "" ELSE s

\* self.dados['bancario']: each value is absent or blank, or is given
BankRecords ==
    [codigo_banco : {"", " ", "001"}, agencia : {"", " ", "1234"},
     conta_corrente : {"", " ", "56789-0"}]

\* _buscar_chave_banco: chave_busca = f"*{codigo_banco}*{agencia}*"
ChaveBusca(codigo, agencia) == "*" \o codigo \o "*" \o agencia \o "*"

\* the calls of preencher_campo_texto made by the stage: a value that is
\* not blank, pressionar_enter left at its default
BankFieldCases == {c \in FieldCases : ~c.blank /\ ~c.enter}

\* what a step of the banking stage leaves alone
BankFrame ==
    UNCHANGED << session, alive, elapsed, tries, stageCommits, ckptCommits,
                 ckptCalls, committed, empIdx, empPc, ckPc, ckTrace, ckModal,
                 ckConfirms, ckEdit, ckRet, ckFault, ckErrors, polls,
                 waitVars, anxVars >>

\* self.campos.preencher_campo_texto('dados_bancarios', campo, valor), its
\* result ignored; the stage goes on to position there
BancoEscrever(campo, valor, there) ==
    /\ \E c \in BankFieldCases :
         LET r == PreencherCampoResultado(c) IN
           /\ stats' = [python_sucesso |-> stats.python_sucesso + r.py,
                        sendkeys_sucesso |-> stats.sendkeys_sucesso + r.sk,
                        falha |-> stats.falha + r.fa]
           /\ lastCall' = [op |-> "preencher_campo_texto", case |-> c,
                           ret |-> r.ret, py |-> r.py, sk |-> r.sk, fa |-> r.fa]
           /\ bankOps' = Append(bankOps, [op |-> "preencher_campo_texto",
                                          campo |-> campo, valor |-> valor,
                                          ret |-> r.ret])
           /\ IF c.direct = "none" THEN NoTouch ELSE Touch
    /\ bankPc' = there
    /\ ops' = ops + 1
    /\ UNCHANGED << pc, result, log, bankRec >>
    /\ BankFrame

\* selecionar_aba_dados_bancarios, which yields True whatever selecionar_aba
\* returned, then the three "not informed" tests on the stripped values
SelecionarAbaDadosBancarios ==
    /\ pc = "bancarios"
    /\ bankPc = "idle"
    /\ \E c \in Calls, rec \in BankRecords :
         /\ bankRec' = rec
         /\ bankOps' = << [op |-> "selecionar_aba", ret |-> (c = "ok")] >>
         /\ lastCall' = [op |-> "selecionar_aba", ret |-> (c = "ok")]
         /\ stats' = AfterOtherOp(stats, c = "ok")
         /\ bankPc' = IF \/ Strip(rec.codigo_banco) = ""
                         \/ Strip(rec.agencia) = ""
                         \/ Strip(rec.conta_corrente) = ""
                      THEN "false" ELSE "id"
    /\ log' = Begun("bancarios")
    /\ ops' = ops + 1
    /\ Touch
    /\ UNCHANGED << pc, result >>
    /\ BankFrame

BancoId ==
    /\ pc = "bancarios"
    /\ bankPc = "id"
    /\ BancoEscrever("id_banco", "BR01", "pais")

BancoPais ==
    /\ pc = "bancarios"
    /\ bankPc = "pais"
    /\ BancoEscrever("pais_banco", "BR", "foco")

\* a step of _buscar_chave_banco made on the session itself: the call
\* returns and the search goes on to position there, or it raises and the
\* search returns False
BuscarChavePasso(here, nome, there) ==
    /\ pc = "bancarios"
    /\ bankPc = here
    /\ \E c \in Calls :
         /\ bankOps' = Append(bankOps, [op |-> nome, ret |-> (c = "ok")])
         /\ bankPc' = IF c = "ok" THEN there ELSE "false"
    /\ Touch
    /\ UNCHANGED << pc, result, log, bankRec, stats, lastCall, ops >>
    /\ BankFrame

\* buscar_elemento_por_name('dados_bancarios', 'chave_banco').setFocus()
BuscarChaveFoco == BuscarChavePasso("foco", "setFocus", "f4")

\* self.session.findById("wnd[0]").sendVKey(4)
BuscarChaveF4 == BuscarChavePasso("f4", "sendVKey(4)", "popup")

\* self.popups.existe_popup(timeout=5): the search returns False when
\* wnd[1] is not there
BuscarChavePopup ==
    /\ pc = "bancarios"
    /\ bankPc = "popup"
    /\ \E aberto \in (IF alive THEN BOOLEAN ELSE {FALSE}) :
         /\ bankOps' = Append(bankOps, [op |-> "existe_popup", ret |-> aberto])
         /\ lastCall' = [op |-> "existe_popup", ret |-> aberto]
         /\ stats' = AfterOtherOp(stats, aberto)
         /\ bankPc' = IF aberto THEN "fill" ELSE "false"
    /\ ops' = ops + 1
    /\ Touch
    /\ UNCHANGED << pc, result, log, bankRec >>
    /\ BankFrame

\* the search key is put into wnd[1]/usr/txtRF02B-BANKL; when that raises,
\* sendVKey(12) is tried on wnd[1] and the search returns False
BuscarChavePreencher ==
    /\ pc = "bancarios"
    /\ bankPc = "fill"
    /\ \E c \in Calls :
         LET escrita == [op |-> "text",
                         valor |-> ChaveBusca(Strip(bankRec.codigo_banco),
                                              Strip(bankRec.agencia)),
                         ret |-> (c = "ok")]
         IN  IF c = "ok"
             THEN /\ bankOps' = Append(bankOps, escrita)
                  /\ bankPc' = "confirm"
             ELSE /\ bankOps' = bankOps \o << escrita, [op |-> "sendVKey(12)"] >>
                  /\ bankPc' = "false"
    /\ Touch
    /\ UNCHANGED << pc, result, log, bankRec, stats, lastCall, ops >>
    /\ BankFrame

\* self.popups.confirmar_popup(), which catches what the session raises;
\* the search returns True whatever it returned
BuscarChaveConfirmar ==
    /\ pc = "bancarios"
    /\ bankPc = "confirm"
    /\ \E ok \in (IF alive THEN BOOLEAN ELSE {FALSE}) :
         /\ bankOps' = Append(bankOps, [op |-> "confirmar_popup", ret |-> ok])
         /\ lastCall' = [op |-> "confirmar_popup", ret |-> ok]
         /\ stats' = AfterOtherOp(stats, ok)
    /\ bankPc' = "conta"
    /\ ops' = ops + 1
    /\ Touch
    /\ UNCHANGED << pc, result, log, bankRec >>
    /\ BankFrame

BancoConta ==
    /\ pc = "bancarios"
    /\ bankPc = "conta"
    /\ BancoEscrever("conta_bancaria", Strip(bankRec.conta_corrente), "true")

\* executar returns what preencher_dados_bancarios returned
PreencherDadosBancariosExecutar ==
    /\ pc = "bancarios"
    /\ bankPc \in {"true", "false"}
    /\ Outcome("bancarios", IF bankPc = "true" THEN "ok" ELSE "false", "", "",
               Ended(IF bankPc = "true" THEN "ok" ELSE "false"))
    /\ bankPc' = "idle"
    /\ bankRec' = NoRecord
    /\ bankOps' = << >>
    /\ lastCall' = NoCall
    /\ ops' = 0
    /\ NoTouch
    /\ UNCHANGED stats
    /\ BankFrame

\* the stage returns False from inside adicionar_empresas
EmpresasFalse ==
    /\ Outcome("empresas", "false", "", "", Ended("false"))
    /\ empIdx' = 0
    /\ empPc' = "idle"
    /\ polls' = 0

\* _adicionar_empresa_individual for the next company of self.empresas
AdicionarEmpresaIndividual ==
    /\ pc = "empresas"
    /\ empPc \in {"idle", "add"}
    /\ \E c \in Calls :
         IF c = "ok"
         THEN /\ empIdx' = empIdx + 1
              /\ empPc' = IF empIdx + 1 = NumEmpresas THEN "salvar" ELSE "add"
              /\ log' = IF empPc = "idle" THEN Begun("empresas") ELSE log
              /\ UNCHANGED << pc, result, polls >>
         ELSE /\ Outcome("empresas", "false", "", "",
                         IF empPc = "idle" THEN Whole("empresas", "false")
                         ELSE Ended("false"))
              /\ empIdx' = 0
              /\ empPc' = "idle"
              /\ polls' = 0
    /\ Touch
    /\ UNCHANGED << session, alive, elapsed, tries, stageCommits, ckptCommits,
                    ckptCalls, committed, ckPc, ckTrace, ckModal, ckConfirms,
                    ckEdit, ckRet, ckFault, ckErrors >>
    /\ ops' = 0
    /\ lastCall' = NoCall
    /\ UNCHANGED << stats, waitVars, stageVars >>

\* salvar_empresas: findById("wnd[0]/tbar[0]/btn[11]").press()
SalvarEmpresasPressionar ==
    /\ pc = "empresas"
    /\ empPc = "salvar"
    /\ \E c \in Calls :
         IF c = "ok"
         THEN /\ stageCommits' = stageCommits + 1
              /\ empPc' = "popup"
              /\ UNCHANGED << pc, result, log, empIdx, polls >>
         ELSE /\ EmpresasFalse
              /\ UNCHANGED stageCommits
    /\ Touch
    /\ UNCHANGED << session, alive, elapsed, tries, ckptCommits, ckptCalls,
                    committed, ckPc, ckTrace, ckModal, ckConfirms, ckEdit,
                    ckRet, ckFault, ckErrors >>
    /\ UNCHANGED << engineVars, waitVars, stageVars >>

\* salvar_empresas: _wait_sap_ready(5.0), then the popup check inside its own
\* try block; neither changes the flow
SalvarEmpresasPopup ==
    /\ pc = "empresas"
    /\ empPc = "popup"
    /\ empPc' = "settle"
    /\ Touch
    /\ UNCHANGED << pc, result, session, alive, elapsed, tries, log,
                    stageCommits, ckptCommits, ckptCalls, committed, empIdx,
                    ckPc, ckTrace, ckModal, ckConfirms, ckEdit, ckRet, ckFault, ckErrors, polls >>
    /\ UNCHANGED << engineVars, waitVars, stageVars >>

\* salvar_empresas: one pass of the 10 s loop that reads session.Busy outside
\* any inner try; a raising read reaches the outer except
SalvarEmpresasSettle ==
    /\ pc = "empresas"
    /\ empPc = "settle"
    /\ IF polls >= MaxPolls
       THEN /\ empPc' = "validar"
            /\ polls' = 0
            /\ NoTouch
            /\ UNCHANGED << pc, result, log, empIdx >>
       ELSE /\ Touch
            /\ \E b1 \in BusyReads, b2 \in BusyReads :
                 CASE b1 = "raise" \/ (b1 = "free" /\ b2 = "raise") ->
                        EmpresasFalse
                   [] b1 = "free" /\ b2 = "free" ->
                        /\ empPc' = "validar"
                        /\ polls' = 0
                        /\ UNCHANGED << pc, result, log, empIdx >>
                   [] OTHER ->
                        /\ polls' = Polled(polls)
                        /\ UNCHANGED << pc, result, log, empIdx, empPc >>
    /\ UNCHANGED << session, alive, elapsed, tries, stageCommits, ckptCommits,
                    ckptCalls, committed, ckPc, ckTrace, ckModal, ckConfirms,
                    ckEdit, ckRet, ckFault, ckErrors >>
    /\ UNCHANGED << engineVars, waitVars, stageVars >>

\* salvar_empresas: findById("wnd[0]") decides the value of the stage
SalvarEmpresasValidar ==
    /\ pc = "empresas"
    /\ empPc = "validar"
    /\ \E c \in Calls :
         IF c = "ok"
         THEN /\ Outcome("empresas", "ok", "", "", Ended("ok"))
              /\ empIdx' = 0
              /\ empPc' = "idle"
              /\ polls' = 0
         ELSE EmpresasFalse
    /\ Touch
    /\ UNCHANGED << session, alive, elapsed, tries, stageCommits, ckptCommits,
                    ckptCalls, committed, ckPc, ckTrace, ckModal, ckConfirms,
                    ckEdit, ckRet, ckFault, ckErrors >>
    /\ UNCHANGED << engineVars, waitVars, stageVars >>

(***************************************************************************)
(* SalvarFornecedor.executar.  The states of the checkpoint are read off   *)
(* the code as follows: Idle on entry, Saving from the btn[11] press,      *)
(* whether it returns or raises, through _wait_sap_ready(10.0) and the     *)
(* popup poll,                                                             *)
(* AwaitingConfirmation once _existe_popup saw wnd[1], Verifying from the  *)
(* 5 s settle loop to the findById("wnd[0]") check, EditEnabled from there *)
(* on, Failed on every "return False".                                     *)
(***************************************************************************)

\* the trace on arrival at position there
Arrive(there) ==
    IF there = "settle" THEN Append(ckTrace, "Verifying") ELSE ckTrace

\* _wait_sap_ready: one pass of the poll loop at position here; a raising
\* read of session.Busy is swallowed and polled again; both the ready and
\* the timed-out exit continue at position there
WaitSapReady(here, there) ==
    /\ ckPc = here
    /\ IF polls >= MaxPolls
       THEN /\ ckPc' = there
            /\ ckTrace' = Arrive(there)
            /\ polls' = 0
            /\ NoTouch
       ELSE /\ Touch
            /\ \E b \in BusyReads :
                 IF b = "free"
                 THEN /\ ckPc' = there
                      /\ ckTrace' = Arrive(there)
                      /\ polls' = 0
                 ELSE /\ polls' = Polled(polls)
                      /\ UNCHANGED << ckPc, ckTrace >>

\* an executar that goes on to ETAPA 5 after a failure
FailedCarriesOn == "editwait"

\* "return False" in the except clauses of ETAPA 4 and of executar
FailedReturns == "ret"

\* executar returns False after the remote operation e raised
SalvarFalse(e) ==
    /\ ckTrace' = Append(ckTrace, "Failed")
    /\ ckRet' = "false"
    /\ ckPc' = FailedReturns
    /\ ckFault' = TRUE
    /\ ckErrors' = ckErrors \cup {e}
    /\ polls' = 0

\* ETAPA 1: findById("wnd[0]/tbar[0]/btn[11]").press()
SalvarPressionar ==
    /\ pc \in SaveSteps
    /\ ckPc = "idle"
    /\ log' = Begun(pc)
    /\ ckptCalls' = ckptCalls + 1
    /\ \E c \in Calls :
         IF c = "ok"
         THEN /\ ckptCommits' = ckptCommits + 1
              /\ committed' = committed \cup {SaveIndex(pc)}
              /\ ckTrace' = << "Idle", "Saving" >>
              /\ ckPc' = "wait10"
              /\ UNCHANGED << ckRet, ckErrors, polls >>
         ELSE /\ ckTrace' = << "Idle", "Saving", "Failed" >>
              /\ ckRet' = "false"
              /\ ckPc' = "ret"
              /\ ckErrors' = ckErrors \cup {"press"}
              /\ UNCHANGED << ckptCommits, committed, polls >>
    /\ Touch
    /\ UNCHANGED << pc, result, session, alive, elapsed, tries, stageCommits,
                    empIdx, empPc, ckModal, ckConfirms, ckEdit, ckFault >>
    /\ UNCHANGED << engineVars, waitVars, stageVars >>

\* ETAPA 2: _wait_sap_ready(timeout=10.0), result only logged
SalvarAguardar ==
    /\ pc \in SaveSteps
    /\ WaitSapReady("wait10", "popup")
    /\ UNCHANGED << pc, result, session, alive, elapsed, tries, log,
                    stageCommits, ckptCommits, ckptCalls, committed, empIdx,
                    empPc, ckModal, ckConfirms, ckEdit, ckRet, ckFault, ckErrors >>
    /\ UNCHANGED << engineVars, waitVars, stageVars >>

\* a _confirmar_popup that presses btn[0] without a popup
SemPopupConfirma == "confirm"

\* _confirmar_popup: "return False" without pressing when _existe_popup
\* found no wnd[1]
SemPopup == "settle"

\* ETAPA 3: _confirmar_popup -> _existe_popup(timeout=3), one pass of its loop
ExistePopup ==
    /\ pc \in SaveSteps
    /\ ckPc = "popup"
    /\ IF polls >= MaxPolls
       THEN /\ ckPc' = SemPopup
            /\ ckTrace' = Arrive(SemPopup)
            /\ polls' = 0
            /\ NoTouch
            /\ UNCHANGED ckModal
       ELSE /\ Touch
            /\ \E c \in Calls :
                 IF c = "ok"
                 THEN /\ ckModal' = TRUE
                      /\ ckTrace' = Append(ckTrace, "AwaitingConfirmation")
                      /\ ckPc' = "confirm"
                      /\ polls' = 0
                 ELSE /\ polls' = Polled(polls)
                      /\ UNCHANGED << ckPc, ckTrace, ckModal >>
    /\ UNCHANGED << pc, result, session, alive, elapsed, tries, log,
                    stageCommits, ckptCommits, ckptCalls, committed, empIdx,
                    empPc, ckConfirms, ckEdit, ckRet, ckFault, ckErrors >>
    /\ UNCHANGED << engineVars, waitVars, stageVars >>

\* _confirmar_popup: its except clause returns False, which executar
\* ignores: the run continues with the 5 s settle loop
ConfirmFailure == "settle"

\* _confirmar_popup: findById("wnd[1]/tbar[0]/btn[0]").press(); its except
\* clause swallows a failure and executar ignores the value returned
ConfirmarPopup ==
    /\ pc \in SaveSteps
    /\ ckPc = "confirm"
    /\ ckConfirms' = ckConfirms + 1
    /\ \E c \in Calls :
         IF c = "ok"
         THEN /\ ckPc' = "wait3"
              /\ UNCHANGED << ckTrace, ckErrors >>
         ELSE /\ ckPc' = ConfirmFailure
              /\ ckTrace' = Arrive(ConfirmFailure)
              /\ ckErrors' = ckErrors \cup {"confirm"}
    /\ Touch
    /\ UNCHANGED << pc, result, session, alive, elapsed, tries, log,
                    stageCommits, ckptCommits, ckptCalls, committed, empIdx,
                    empPc, ckModal, ckEdit, ckRet, ckFault, polls >>
    /\ UNCHANGED << engineVars, waitVars, stageVars >>

\* _confirmar_popup: _wait_sap_ready(timeout=3.0) after the press
ConfirmarPopupAguardar ==
    /\ pc \in SaveSteps
    /\ WaitSapReady("wait3", "settle")
    /\ UNCHANGED << pc, result, session, alive, elapsed, tries, log,
                    stageCommits, ckptCommits, ckptCalls, committed, empIdx,
                    empPc, ckModal, ckConfirms, ckEdit, ckRet, ckFault, ckErrors >>
    /\ UNCHANGED << engineVars, waitVars, stageVars >>

\* the 5 s loop that reads session.Busy twice per pass outside any inner
\* try: a raising read reaches the outer except of executar
SalvarGarantir ==
    /\ pc \in SaveSteps
    /\ ckPc = "settle"
    /\ IF polls >= MaxPolls
       THEN /\ ckPc' = "validar"
            /\ polls' = 0
            /\ NoTouch
            /\ UNCHANGED << ckTrace, ckRet, ckFault, ckErrors >>
       ELSE /\ Touch
            /\ \E b1 \in BusyReads, b2 \in BusyReads :
                 CASE b1 = "raise" \/ (b1 = "free" /\ b2 = "raise") ->
                        SalvarFalse("busy")
                   [] b1 = "free" /\ b2 = "free" ->
                        /\ ckPc' = "validar"
                        /\ polls' = 0
                        /\ UNCHANGED << ckTrace, ckRet, ckFault, ckErrors >>
                   [] OTHER ->
                        /\ polls' = Polled(polls)
                        /\ UNCHANGED << ckPc, ckTrace, ckRet, ckFault, ckErrors >>
    /\ UNCHANGED << pc, result, session, alive, elapsed, tries, log,
                    stageCommits, ckptCommits, ckptCalls, committed, empIdx,
                    empPc, ckModal, ckConfirms, ckEdit >>
    /\ UNCHANGED << engineVars, waitVars, stageVars >>

\* ETAPA 4: findById("wnd[0]")
SalvarValidar ==
    /\ pc \in SaveSteps
    /\ ckPc = "validar"
    /\ \E c \in Calls :
         IF c = "ok"
         THEN /\ ckTrace' = Append(ckTrace, "EditEnabled")
              /\ ckPc' = "editwait"
              /\ UNCHANGED << ckRet, ckFault, ckErrors, polls >>
         ELSE SalvarFalse("root")
    /\ Touch
    /\ UNCHANGED << pc, result, session, alive, elapsed, tries, log,
                    stageCommits, ckptCommits, ckptCalls, committed, empIdx,
                    empPc, ckModal, ckConfirms, ckEdit >>
    /\ UNCHANGED << engineVars, waitVars, stageVars >>

\* ETAPA 5: _wait_sap_ready(timeout=2.0) before the btn[6] press
HabilitarEdicaoAguardar ==
    /\ pc \in SaveSteps
    /\ WaitSapReady("editwait", "edit")
    /\ UNCHANGED << pc, result, session, alive, elapsed, tries, log,
                    stageCommits, ckptCommits, ckptCalls, committed, empIdx,
                    empPc, ckModal, ckConfirms, ckEdit, ckRet, ckFault, ckErrors >>
    /\ UNCHANGED << engineVars, waitVars, stageVars >>

\* an ETAPA 5 whose except clause returns False
EditFailureReturnsFalse == "false"

\* ETAPA 5: the except clause around the btn[6] press ends in "return True"
EditFailureReturns == "true"

\* ETAPA 5: findById("wnd[0]/tbar[1]/btn[6]").press(); a failure still
\* returns True
HabilitarEdicao ==
    /\ pc \in SaveSteps
    /\ ckPc = "edit"
    /\ \E c \in Calls :
         IF c = "ok"
         THEN /\ ckEdit' = "pressed"
              /\ ckPc' = "editwait2"
              /\ UNCHANGED ckRet
         ELSE /\ ckEdit' = "failed"
              /\ ckRet' = EditFailureReturns
              /\ ckPc' = "ret"
    /\ Touch
    /\ UNCHANGED << pc, result, session, alive, elapsed, tries, log,
                    stageCommits, ckptCommits, ckptCalls, committed, empIdx,
                    empPc, ckTrace, ckModal, ckConfirms, ckFault, ckErrors, polls >>
    /\ UNCHANGED << engineVars, waitVars, stageVars >>

\* ETAPA 5: _wait_sap_ready(timeout=2.0) after the press, then return True
HabilitarEdicaoConcluir ==
    /\ pc \in SaveSteps
    /\ ckPc = "editwait2"
    /\ IF polls >= MaxPolls
       THEN /\ ckPc' = "ret"
            /\ ckRet' = "true"
            /\ polls' = 0
            /\ NoTouch
       ELSE /\ Touch
            /\ \E b \in BusyReads :
                 IF b = "free"
                 THEN /\ ckPc' = "ret"
                      /\ ckRet' = "true"
                      /\ polls' = 0
                 ELSE /\ polls' = Polled(polls)
                      /\ UNCHANGED << ckPc, ckRet >>
    /\ UNCHANGED << pc, result, session, alive, elapsed, tries, log,
                    stageCommits, ckptCommits, ckptCalls, committed, empIdx,
                    empPc, ckTrace, ckModal, ckConfirms, ckEdit, ckFault, ckErrors >>
    /\ UNCHANGED << engineVars, waitVars, stageVars >>

\* AutomacaoSAP.executar: "if not self.salvador.executar(): return False, ..."
SalvadorRetorna ==
    /\ pc \in SaveSteps
    /\ ckPc = "ret"
    /\ Outcome(pc, IF ckRet = "true" THEN "ok" ELSE "false", "", "",
               Ended(IF ckRet = "true" THEN "ok" ELSE "false"))
    /\ ckPc' = "idle"
    /\ ckTrace' = << >>
    /\ ckModal' = FALSE
    /\ ckConfirms' = 0
    /\ ckEdit' = "none"
    /\ ckRet' = "none"
    /\ ckFault' = FALSE
    /\ ckErrors' = {}
    /\ NoTouch
    /\ UNCHANGED << session, alive, elapsed, tries, stageCommits, ckptCommits,
                    ckptCalls, committed, empIdx, empPc, polls >>
    /\ UNCHANGED << engineVars, waitVars, stageVars >>

(***************************************************************************)
(* GerenciadorAnexosSAP.executar: adicionar_anexos loads the list, presses *)
(* btn[25] and runs _anexar_arquivo_individual for every entry;            *)
(* _limpar_estado_popups is the recovery of a failed entry.                *)
(***************************************************************************)

\* what a step of the attachment stage leaves alone
AnexosFrame ==
    UNCHANGED << session, alive, elapsed, tries, stageCommits, ckptCommits,
                 ckptCalls, committed, empIdx, empPc, ckPc, ckTrace, ckModal,
                 ckConfirms, ckEdit, ckRet, ckFault, ckErrors, polls,
                 engineVars, waitVars, bankPc, bankRec, bankOps >>

\* a loop that the first exception leaves
SweepOnRaiseStop(i) == 0

\* _limpar_estado_popups: "except: pass" inside the loop, the index the
\* loop goes on with after the attempt at wnd[i] raised
SweepOnRaise(i) == i - 1

\* the indices _limpar_estado_popups tries from i down, outs[j] being what
\* findById(f"wnd[{j}]").sendVKey(12) does
RECURSIVE SweepRun(_, _)
SweepRun(i, outs) ==
    IF i = 0 THEN << >>
    ELSE << i >> \o SweepRun(IF outs[i] = "ok" THEN i - 1 ELSE SweepOnRaise(i),
                             outs)

\* the entry in progress fails at step p: the steps from the selection of
\* "PC" on call _limpar_estado_popups before they return False; to the
\* others adicionar_anexos answers at once with falha += 1 and its own call
AnexoFalha(p) ==
    /\ anxFail' = p
    /\ IF p \in {"pc", "popup2", "path", "confirm", "raise"}
       THEN /\ anxPc' = "limpar_inner"
            /\ UNCHANGED << anxSucesso, anxFalha >>
       ELSE /\ anxPc' = "limpar_outer"
            /\ anxFalha' = anxFalha + 1
            /\ UNCHANGED anxSucesso
    /\ UNCHANGED << sweepLog, sweepHits >>

\* the order of the steps of _anexar_arquivo_individual that are calls on
\* the session
AnexarSeguinte(p) ==
    CASE p = "gos" -> "link"
      [] p = "link" -> "popup1"
      [] p = "pc" -> "popup2"
      [] p = "path" -> "confirm"

\* _carregar_lista_anexos and the press of btn[25], whose failure is logged
\* and ignored: a list that cannot be read makes the stage yield False, an
\* empty one True, both before any remote operation
GerenciadorAnexosCarregar ==
    /\ pc = "anexos"
    /\ anxPc = "idle"
    /\ \E lista \in {"absent", "read"}, n \in 0..MaxAnexos :
         CASE lista = "absent" ->
                /\ Outcome("anexos", "false", "", "", Whole("anexos", "false"))
                /\ NoTouch
                /\ UNCHANGED << anxPc, anxN >>
           [] n = 0 ->
                /\ Outcome("anexos", "ok", "", "", Whole("anexos", "ok"))
                /\ NoTouch
                /\ UNCHANGED << anxPc, anxN >>
           [] OTHER ->
                /\ anxN' = n
                /\ anxPc' = "file"
                /\ log' = Begun("anexos")
                /\ Touch
                /\ UNCHANGED << pc, result >>
    /\ UNCHANGED << anxSucesso, anxFalha, anxFail, sweepLog, sweepHits >>
    /\ AnexosFrame

\* a validation made after the GOS menu was opened
ValidacaoDepoisDoMenu == Touch

\* the validation comes before PASSO 1 and works on the local disk alone
ValidacaoLocal == NoTouch

\* _anexar_arquivo_individual: Path(caminho).exists() and the resolution of
\* the directory; an exception here reaches the outer except of the method
AnexarValidarArquivo ==
    /\ pc = "anexos"
    /\ anxPc = "file"
    /\ \E f \in {"exists", "missing", "raise"} :
         CASE f = "exists" ->
                /\ anxPc' = "gos"
                /\ UNCHANGED << anxSucesso, anxFalha, anxFail, sweepLog,
                                sweepHits >>
           [] f = "missing" -> AnexoFalha("file")
           [] f = "raise" -> AnexoFalha("raise")
    /\ ValidacaoLocal
    /\ UNCHANGED << pc, result, log, anxN >>
    /\ AnexosFrame

\* pressContextButton("%GOS_TOOLBOX"), selectContextMenuItem("%GOS_ARL_LINK"),
\* the selection of "PC" in the tree of wnd[1], the path and the file name
\* put into wnd[2]: each inside its own try block
AnexarChamada ==
    /\ pc = "anexos"
    /\ anxPc \in {"gos", "link", "pc", "path"}
    /\ \E c \in Calls :
         IF c = "ok"
         THEN /\ anxPc' = AnexarSeguinte(anxPc)
              /\ UNCHANGED << anxSucesso, anxFalha, anxFail, sweepLog,
                              sweepHits >>
         ELSE AnexoFalha(anxPc)
    /\ Touch
    /\ UNCHANGED << pc, result, log, anxN >>
    /\ AnexosFrame

\* self.popups.existe_popup(timeout=3) after the menu item and after the
\* selection of "PC"
AnexarExistePopup ==
    /\ pc = "anexos"
    /\ anxPc \in {"popup1", "popup2"}
    /\ \E aberto \in (IF alive THEN BOOLEAN ELSE {FALSE}) :
         IF aberto
         THEN /\ anxPc' = IF anxPc = "popup1" THEN "pc" ELSE "path"
              /\ UNCHANGED << anxSucesso, anxFalha, anxFail, sweepLog,
                              sweepHits >>
         ELSE AnexoFalha(anxPc)
    /\ Touch
    /\ UNCHANGED << pc, result, log, anxN >>
    /\ AnexosFrame

\* the press of wnd[2]/tbar[0]/btn[0]; wnd[1], when still there, gets
\* sendVKey(12) inside a try of its own; the entry is counted in sucesso
AnexarConfirmar ==
    /\ pc = "anexos"
    /\ anxPc = "confirm"
    /\ \E c \in Calls :
         IF c = "ok"
         THEN /\ anxSucesso' = anxSucesso + 1
              /\ anxPc' = IF anxSucesso + 1 + anxFalha = anxN
                          THEN "fim" ELSE "file"
              /\ UNCHANGED << anxFalha, anxFail, sweepLog, sweepHits >>
         ELSE AnexoFalha("confirm")
    /\ Touch
    /\ UNCHANGED << pc, result, log, anxN >>
    /\ AnexosFrame

\* the nested windows that are open and take a key when
\* _limpar_estado_popups is called: none, the dialog of wnd[1], the dialogs
\* of wnd[1] and wnd[2], a window at index 3 alone; an invalid session has
\* none
WindowSets == IF alive THEN {{}, {1}, {1, 2}, {3}} ELSE {{}}

\* _limpar_estado_popups: findById(f"wnd[{i}]").sendVKey(12) for i from
\* SweepDepth down to 1; the attempt raises where there is no window
LimparEstadoPopups ==
    /\ pc = "anexos"
    /\ anxPc \in {"limpar_inner", "limpar_outer"}
    /\ \E w \in WindowSets :
         LET outs == [i \in 1..SweepDepth |-> IF i \in w THEN "ok" ELSE "raise"]
             tried == SweepRun(SweepDepth, outs)
         IN  /\ sweepLog' = tried
             /\ sweepHits' = {i \in w : \E k \in 1..Len(tried) : tried[k] = i}
    /\ anxPc' = IF anxPc = "limpar_inner" THEN "ret_inner" ELSE "ret_outer"
    /\ Touch
    /\ UNCHANGED << pc, result, log, anxN, anxSucesso, anxFalha, anxFail >>
    /\ AnexosFrame

\* a loop that a failed entry ends
AbortaNaFalha(feitos, n) == "fim"

\* the for loop of adicionar_anexos after the recovery of a failed entry:
\* the next entry, or the summary when the list is exhausted
DepoisDaFalha(feitos, n) == IF feitos = n THEN "fim" ELSE "file"

\* _limpar_estado_popups has returned: _anexar_arquivo_individual returns
\* False and adicionar_anexos counts the entry and makes its own call, or
\* adicionar_anexos goes on to the next entry
LimparRetorna ==
    /\ pc = "anexos"
    /\ anxPc \in {"ret_inner", "ret_outer"}
    /\ IF anxPc = "ret_inner"
       THEN /\ anxPc' = "limpar_outer"
            /\ anxFalha' = anxFalha + 1
            /\ UNCHANGED anxFail
       ELSE /\ anxPc' = DepoisDaFalha(anxSucesso + anxFalha, anxN)
            /\ anxFail' = "none"
            /\ UNCHANGED anxFalha
    /\ sweepLog' = << >>
    /\ sweepHits' = {}
    /\ NoTouch
    /\ UNCHANGED << pc, result, log, anxN, anxSucesso >>
    /\ AnexosFrame

\* adicionar_anexos: "if falha > 0: return False", and executar returns
\* what it returned
GerenciadorAnexosExecutar ==
    /\ pc = "anexos"
    /\ anxPc = "fim"
    /\ Outcome("anexos", IF anxFalha > 0 THEN "false" ELSE "ok", "", "",
               Ended(IF anxFalha > 0 THEN "false" ELSE "ok"))
    /\ anxPc' = "idle"
    /\ anxN' = 0
    /\ anxSucesso' = 0
    /\ anxFalha' = 0
    /\ NoTouch
    /\ UNCHANGED << anxFail, sweepLog, sweepHits >>
    /\ AnexosFrame

(***************************************************************************)
(* The run.                                                                *)
(***************************************************************************)
Program ==
    \/ CarregarDados
    \/ ConectarTentativa
    \/ ConectarTimeout
    \/ InicializarModulos
    \/ EntrarTransacaoExecutar
    \/ PreencherCampoTexto
    \/ OutraOperacao
    \/ PreencherDadosGeraisExecutar
    \/ SelecionarAbaDadosBancarios
    \/ BancoId
    \/ BancoPais
    \/ BuscarChaveFoco
    \/ BuscarChaveF4
    \/ BuscarChavePopup
    \/ BuscarChavePreencher
    \/ BuscarChaveConfirmar
    \/ BancoConta
    \/ PreencherDadosBancariosExecutar
    \/ AdicionarEmpresaIndividual
    \/ SalvarEmpresasPressionar
    \/ SalvarEmpresasPopup
    \/ SalvarEmpresasSettle
    \/ SalvarEmpresasValidar
    \/ PreencherComprasExecutar
    \/ GerenciadorAnexosCarregar
    \/ AnexarValidarArquivo
    \/ AnexarChamada
    \/ AnexarExistePopup
    \/ AnexarConfirmar
    \/ LimparEstadoPopups
    \/ LimparRetorna
    \/ GerenciadorAnexosExecutar
    \/ SalvarPressionar
    \/ SalvarAguardar
    \/ ExistePopup
    \/ ConfirmarPopup
    \/ ConfirmarPopupAguardar
    \/ SalvarGarantir
    \/ SalvarValidar
    \/ HabilitarEdicaoAguardar
    \/ HabilitarEdicao
    \/ HabilitarEdicaoConcluir
    \/ SalvadorRetorna

Next == Program \/ Invalidate

Spec == Init /\ [][Next]_vars

\* the single thread of executar keeps running: every remote call returns
\* or raises
FairSpec == Init /\ [][Next]_vars /\ WF_vars(Program)

(***************************************************************************)
(* _wait_sap_ready taken on its own, under a deterministic clock: the      *)
(* clock stands at 0 when the call is made and advances only by the sleep  *)
(* of the loop.  The call is made with any timeout up to MaxTimeout,       *)
(* against any course of session.Busy: at every instant the flag is set,   *)
(* clear, or cannot be read.                                               *)
(***************************************************************************)
MainIdle ==
    UNCHANGED << pc, result, session, alive, deadAccess, elapsed, tries, log,
                 opTick, stageCommits, ckptCommits, ckptCalls, committed,
                 empIdx, empPc, ckPc, ckTrace, ckModal, ckConfirms, ckEdit,
                 ckRet, ckFault, ckErrors, polls, engineVars, stageVars >>

WaitInit ==
    /\ InitRun
    /\ wTimeout \in 0..MaxTimeout
    /\ wBusy \in [0..MaxTimeout -> {"busy", "free", "raise"}]
    /\ wClock = 0
    /\ wRet = "none"

\* a loop that also runs when the clock stands at end_time
InWindowInclusive(now, end) == now <= end

\* "while time.time() < end_time"
InWindow(now, end) == now < end

\* a loop without the try block: the exception leaves the function
OnReadPropagate(b) ==
    CASE b = "free" -> "return"
      [] b = "busy" -> "sleep"
      [] b = "raise" -> "raise"

\* the body of the loop: "if not self.session.Busy: return True" inside
\* "try ... except: pass"
OnRead(b) ==
    CASE b = "free" -> "return"
      [] b = "busy" -> "sleep"
      [] b = "raise" -> "sleep"

\* one pass of the loop
WaitReadyPoll ==
    /\ wRet = "none"
    /\ InWindow(wClock, wTimeout)
    /\ wClock \in DOMAIN wBusy
    /\ CASE OnRead(wBusy[wClock]) = "return" ->
               /\ wRet' = "true"
               /\ UNCHANGED wClock
         [] OnRead(wBusy[wClock]) = "sleep" ->
               /\ wClock' = wClock + PollSleep
               /\ UNCHANGED wRet
         [] OnRead(wBusy[wClock]) = "raise" ->
               /\ wRet' = "raise"
               /\ UNCHANGED wClock
    /\ UNCHANGED << wTimeout, wBusy >>
    /\ MainIdle

\* the loop ends: "return False"
WaitReadyTimeout ==
    /\ wRet = "none"
    /\ ~InWindow(wClock, wTimeout)
    /\ wRet' = "false"
    /\ UNCHANGED << wTimeout, wBusy, wClock >>
    /\ MainIdle

WaitNext == WaitReadyPoll \/ WaitReadyTimeout

WaitSpec == WaitInit /\ [][WaitNext]_vars

(***************************************************************************)
(* ManipuladorCamposSAP taken on its own: the engine is built over a       *)
(* campos_sap.json and one of its methods is called once, against any      *)
(* course of the session.  lastCall holds the call and what it did: the    *)
(* value returned, the increments of _stats and the operations issued, in  *)
(* the order of the code.  "wait" is a call of _wait_sap_ready, ":raise"   *)
(* marks an operation that raised.                                         *)
(***************************************************************************)

\* the characters a value is written with
Alfabeto == {"a", "+", "{", "}"}

\* valor_limpo: the stripped value, up to MaxLen characters
Valores == UNION { [1..n -> Alfabeto] : n \in 0..MaxLen }

\* "for char in ['+', '^', '%', '~', '(', ')', '{', '}', '[', ']']"
Reservados == << "+", "^", "%", "~", "(", ")", "{", "}", "[", "]" >>

\* valor_escaped.replace(char, '{' + char + '}')
RECURSIVE Substituir(_, _)
Substituir(s, char) ==
    IF s = << >> THEN << >>
    ELSE (IF Head(s) = char THEN << "{", char, "}" >> ELSE << Head(s) >>)
            \o Substituir(Tail(s), char)

\* the passes of the loop from the k-th character of the list on: each
\* pass works on the string the pass before it left
RECURSIVE EscaparDesde(_, _)
EscaparDesde(s, k) ==
    IF k > Len(Reservados) THEN s
    ELSE EscaparDesde(Substituir(s, Reservados[k]), k + 1)

\* valor_escaped as handed to shell.SendKeys
Escapar(valor) == EscaparDesde(valor, 1)

\* a keystroke string that SendKeys does not read as literal characters
Malformado == << "malformed" >>

\* what shell.SendKeys types for a keystroke string: a brace group stands
\* for the character it holds, a character that is not reserved stands for
\* itself, and a reserved character outside a group is no literal
RECURSIVE Decodificar(_)
Decodificar(s) ==
    IF s = << >> THEN << >>
    ELSE IF Head(s) = "{"
    THEN IF Len(s) >= 3 /\ s[3] = "}"
         THEN LET resto == Decodificar(SubSeq(s, 4, Len(s)))
              IN  IF resto = Malformado THEN Malformado
                  ELSE << s[2] >> \o resto
         ELSE Malformado
    ELSE IF \E k \in DOMAIN Reservados : Reservados[k] = Head(s)
    THEN Malformado
    ELSE LET resto == Decodificar(Tail(s))
         IN  IF resto = Malformado THEN Malformado
             ELSE << Head(s) >> \o resto

\* the fields a stage may name, and the maps campos_sap.json may hold
Campos == {"nome_empresa", "termo_pesquisa_1"}

\* elemento.text after the keystrokes: it cannot be read, or it is a text
\* of tam characters that holds valor[:20] or not
Releituras(c, valor) ==
    IF c.fallback # "ok"
    THEN {[lido |-> "none", contem |-> FALSE, tam |-> 0]}
    ELSE {[lido |-> "unreadable", contem |-> FALSE, tam |-> 0]}
         \cup {r \in [lido : {"text"}, contem : BOOLEAN, tam : 0..MaxLen] :
                 r.contem => r.tam >= Len(valor)}

\* the Enter of the fallback: shell.SendKeys("{ENTER}") returns ("keys"), or
\* it raises and sendVKey(0) returns ("vkey"), or both raise ("lost")
TeclasEnter(c) ==
    IF c.fallback = "ok" /\ c.enter THEN {"keys", "vkey", "lost"} ELSE {"none"}

\* the inputs of one call of preencher_campo_texto in full: those of
\* FieldCases, the stripped value, the read-back of the fallback and the
\* course of its Enter
CampoCases ==
    UNION { UNION { { c @@ [valor |-> v, lido |-> r.lido,
                            contem |-> r.contem, tam |-> r.tam,
                            fbEnter |-> e] :
                        r \in Releituras(c, v), e \in TeclasEnter(c) } :
                    v \in {w \in Valores : c.blank <=> w = << >>} } :
            c \in FieldCases }

\* "valor[:20] in texto_atual or len(texto_atual) > len(valor) * 0.5"
AceitaRevalidacao(c) == c.contem \/ 2 * c.tam > Len(c.valor)

\* _preencher_via_sendkeys: the value returned
PreencherViaSendkeys(c) ==
    IF c.fallback = "raise" THEN FALSE
    ELSE IF c.lido = "unreadable" THEN TRUE
    ELSE IF AceitaRevalidacao(c) THEN TRUE
    ELSE TRUE

\* _preencher_via_sendkeys: the operations issued
PreencherViaSendkeysOps(c) ==
    IF c.fallback = "raise" THEN << "findById:raise" >>
    ELSE << "findById", "setFocus", "SendKeys:^a", "SendKeys:{DELETE}",
            "SendKeys:valor", "wait", "text?" >>

\* TENTATIVA 1 of preencher_campo_texto: the operations issued
DiretoOps(c) ==
    << "wait" >>
    \o (IF c.direct = "raise" THEN << "text=:raise" >>
        ELSE << "text=", "text?" >>)
    \o (IF c.direct # "raise" /\ Verified(c.direct)
        THEN << "setFocus" >>
             \o (IF ~c.enter THEN << >>
                 ELSE IF c.enterKey = "ok" THEN << "wait", "sendVKey" >>
                 ELSE << "wait", "sendVKey:raise" >>)
        ELSE << >>)

\* the Enter of TENTATIVA 2
FallbackEnterOps(c) ==
    CASE c.fbEnter = "none" -> << >>
      [] c.fbEnter = "keys" -> << "wait", "SendKeys:{ENTER}" >>
      [] c.fbEnter = "vkey" ->
             << "wait", "SendKeys:{ENTER}:raise", "sendVKey" >>
      [] c.fbEnter = "lost" ->
             << "wait", "SendKeys:{ENTER}:raise", "sendVKey:raise" >>

\* preencher_campo_texto: the operations issued, in order
PreencherCampoOps(c) ==
    IF c.blank \/ ~c.locator THEN << >>
    ELSE DiretoOps(c)
         \o (IF c.fallback = "none" THEN << >>
             ELSE PreencherViaSendkeysOps(c)
                  \o (IF PreencherViaSendkeys(c) THEN FallbackEnterOps(c)
                      ELSE << >>))

\* what the steps below leave alone
CallIdle == StageIdle /\ UNCHANGED << deadAccess, opTick >>

\* ManipuladorCamposSAP(session, campos_sap_json_path): the file is read and
\* kept as it is, or it cannot be read and the constructor raises
ManipuladorCamposInit ==
    /\ lastCall = NoCall
    /\ \E lido \in BOOLEAN, mapa \in SUBSET Campos :
         lastCall' = [op |-> "__init__", ret |-> lido,
                      mapa |-> IF lido THEN mapa ELSE {}]
    /\ UNCHANGED << stats, ops >>
    /\ CallIdle

\* the engine stands built and no method was called yet
Construido == lastCall.op = "__init__" /\ lastCall.ret

\* preencher_campo_texto(categoria, campo, valor, pressionar_enter)
PreencherCampoChamada ==
    /\ Construido
    /\ \E campo \in Campos, c \in CampoCases :
         LET r == PreencherCampoResultado(c) IN
           /\ c.locator <=> campo \in lastCall.mapa
           /\ stats' = [python_sucesso |-> stats.python_sucesso + r.py,
                        sendkeys_sucesso |-> stats.sendkeys_sucesso + r.sk,
                        falha |-> stats.falha + r.fa]
           /\ lastCall' = [op |-> "preencher_campo_texto", case |-> c,
                           mapa |-> lastCall.mapa, campo |-> campo,
                           ret |-> r.ret, py |-> r.py, sk |-> r.sk,
                           fa |-> r.fa, emitidas |-> PreencherCampoOps(c),
                           teclas |-> IF c.fallback = "ok"
                                      THEN Escapar(c.valor) ELSE << >>]
    /\ ops' = ops + 1
    /\ CallIdle

\* the waits for an element: _wait_for_element_fast and
\* buscar_elemento_por_name of ManipuladorCamposSAP, wait_for_element of
\* PreencherDadosGerais
ElementWaits ==
    {"_wait_for_element_fast", "wait_for_element", "buscar_elemento_por_name"}

\* what session.findById can do at an instant: return the element, raise
\* pythoncom.com_error, or raise another exception
Resolutions == {"found", "com_error", "error"}

\* the except clauses of the loop: buscar_elemento_por_name has
\* "except Exception" next to "except pythoncom.com_error"
Catches(kind, r) ==
    r = "com_error" \/ (kind = "buscar_elemento_por_name" /\ r = "error")

\* the statement after the loop
OnElementTimeout(kind, last) ==
    CASE kind = "_wait_for_element_fast" -> [ret |-> "false", last |-> "none"]
      [] kind = "wait_for_element" ->
             [ret |-> "TimeoutError", last |-> "none"]
      [] kind = "buscar_elemento_por_name" ->
             [ret |-> "SAPElementNotFoundError", last |-> last]

\* the loop from the instant `now` on, `last` being ultimo_erro; an instant
\* is one time.sleep(0.02)
RECURSIVE EsperarElemento(_, _, _, _, _)
EsperarElemento(kind, timeout, finds, now, last) ==
    IF ~InWindow(now, timeout) THEN OnElementTimeout(kind, last)
    ELSE IF finds[now] = "found"
    THEN [ret |-> IF kind = "buscar_elemento_por_name" THEN "element"
                  ELSE "true",
          last |-> IF kind = "buscar_elemento_por_name" THEN last ELSE "none"]
    ELSE IF Catches(kind, finds[now])
    THEN EsperarElemento(kind, timeout, finds, now + 1,
                         IF kind = "buscar_elemento_por_name"
                         THEN finds[now] ELSE last)
    ELSE [ret |-> finds[now], last |-> "none"]

\* one call of a wait for an element, with any timeout up to MaxTimeout;
\* buscar_elemento_por_name looks the field up in campos_map first
EsperarElementoChamada ==
    /\ lastCall = NoCall \/ Construido
    /\ \E kind \in ElementWaits, timeout \in 0..MaxTimeout,
          finds \in [0..MaxTimeout -> Resolutions], campo \in Campos :
         /\ IF kind = "wait_for_element" THEN lastCall = NoCall
            ELSE Construido
         /\ LET r == IF kind = "buscar_elemento_por_name"
                        /\ campo \notin lastCall.mapa
                     THEN [ret |-> "SAPElementNotFoundError", last |-> "none"]
                     ELSE EsperarElemento(kind, timeout, finds, 0, "none")
            IN  lastCall' = [op |-> kind, timeout |-> timeout,
                             finds |-> finds,
                             locator |-> (kind = "buscar_elemento_por_name"
                                            => campo \in lastCall.mapa),
                             ret |-> r.ret, last |-> r.last]
    /\ ops' = ops + 1
    /\ UNCHANGED stats
    /\ CallIdle

\* the methods that wrap one remote operation, and the operation of each
Envoltorios ==
    {"selecionar_combo", "marcar_checkbox", "pressionar_botao",
     "selecionar_aba"}

OperacaoRemota(op) ==
    CASE op = "selecionar_combo" -> "key="
      [] op = "marcar_checkbox" -> "selected="
      [] op = "pressionar_botao" -> "press"
      [] op = "selecionar_aba" -> "select"

\* what the method does after its remote operation returned
DepoisDaOperacao(op) ==
    CASE op = "selecionar_combo" -> << "SetFocus" >>
      [] op = "marcar_checkbox" -> << >>
      [] op = "pressionar_botao" -> << "wait" >>
      [] op = "selecionar_aba" -> << "wait" >>

\* the operations a wrapper issues: its own _wait_sap_ready, the lookup and
\* the wait and the search of buscar_elemento_por_name, the remote operation
EnvoltorioOps(op, locator, busca, act) ==
    << "wait" >>
    \o (IF ~locator THEN << >>
        ELSE << "wait" >>
             \o (IF busca # "element" THEN << "findById:raise" >>
                 ELSE << "findById" >>
                      \o (IF act = "raise"
                          THEN << OperacaoRemota(op) \o ":raise" >>
                          ELSE << OperacaoRemota(op) >>
                               \o DepoisDaOperacao(op))))

\* one call of a wrapper: "except Exception" turns whatever is raised into
\* False
EnvoltorioChamada ==
    /\ Construido
    /\ \E op \in Envoltorios, campo \in Campos,
          busca \in {"element", "SAPElementNotFoundError"}, act \in Calls :
         LET locator == campo \in lastCall.mapa IN
           lastCall' = [op |-> op, locator |-> locator, busca |-> busca,
                        act |-> act,
                        ret |-> (locator /\ busca = "element" /\ act = "ok"),
                        emitidas |-> EnvoltorioOps(op, locator, busca, act)]
    /\ stats' = AfterOtherOp(stats, TRUE)
    /\ ops' = ops + 1
    /\ CallIdle

\* self.dados['empresa']: a value is absent or given
Textos == {"", "ACME"}

\* PreencherDadosGerais.preencher_dados_gerais after the tab was selected:
\* the writes made, c[i] being the course of the i-th, and the value
\* returned
PreencherDadosGeraisAba(razao_social, nome_fantasia, c) ==
    LET escrita(campo, i) ==
            [campo |-> campo, locator |-> c[i].locator,
             ret |-> PreencherCampoResultado(c[i]).ret]
    IN  IF razao_social = ""
        THEN [ret |-> FALSE, escritas |-> << >>]
        ELSE [ret |-> TRUE,
              escritas |->
                  << escrita("nome_empresa", 1) >>
                  \o (IF nome_fantasia = "" THEN << >>
                      ELSE << escrita("termo_pesquisa_1", 2),
                              escrita("termo_pesquisa_2", 3) >>)]

\* one call of preencher_dados_gerais
PreencherDadosGeraisChamada ==
    /\ Construido
    /\ \E razao_social \in Textos, nome_fantasia \in Textos,
          c \in [1..3 -> BankFieldCases] :
         LET r == PreencherDadosGeraisAba(razao_social, nome_fantasia, c)
             n == Len(r.escritas)
             soma(f) == IF n = 0 THEN 0
                        ELSE IF n = 1 THEN PreencherCampoResultado(c[1])[f]
                        ELSE PreencherCampoResultado(c[1])[f]
                             + PreencherCampoResultado(c[2])[f]
                             + PreencherCampoResultado(c[3])[f]
         IN  /\ lastCall' = [op |-> "preencher_dados_gerais",
                             razao_social |-> razao_social,
                             nome_fantasia |-> nome_fantasia,
                             ret |-> r.ret, escritas |-> r.escritas]
             /\ stats' = [python_sucesso |-> stats.python_sucesso + soma("py"),
                          sendkeys_sucesso |->
                              stats.sendkeys_sucesso + soma("sk"),
                          falha |-> stats.falha + soma("fa")]
    /\ ops' = ops + 1
    /\ CallIdle

\* the three methods of GerenciadorPopups
PopupOps == {"existe_popup", "confirmar_popup", "fechar_popup_esc"}

\* existe_popup: the loop from the instant `now` on, wnd[t] being what
\* findById("wnd[1]") does at instant t: it returns the window ("found"),
\* returns nothing ("none") or raises, which "except Exception: pass" drops
RECURSIVE ExistePopupLoop(_, _, _)
ExistePopupLoop(timeout, wnd, now) ==
    IF ~InWindow(now, timeout) THEN FALSE
    ELSE IF wnd[now] = "found" THEN TRUE
    ELSE ExistePopupLoop(timeout, wnd, now + 1)

\* a method that acts on wnd[1] without asking for it first
SemPerguntar(existe) == TRUE

\* "if self.existe_popup(timeout):"
SeExiste(existe) == existe

\* the operation confirmar_popup and fechar_popup_esc make on the dialog
AcaoNoPopup(op) ==
    IF op = "confirmar_popup" THEN "press" ELSE "sendVKey(12)"

\* confirmar_popup and fechar_popup_esc after existe_popup gave `existe`:
\* the operations issued and the value returned; "except Exception" turns a
\* raise of the operation into False
FecharPopup(op, existe, act) ==
    IF ~SeExiste(existe) THEN [ret |-> FALSE, emitidas |-> << >>]
    ELSE IF act = "raise"
    THEN [ret |-> FALSE, emitidas |-> << AcaoNoPopup(op) \o ":raise" >>]
    ELSE [ret |-> TRUE, emitidas |-> << AcaoNoPopup(op), "wait" >>]

\* one call of a method of GerenciadorPopups, which is built from the
\* session alone; fechar_popup_esc asks existe_popup(1)
PopupChamada ==
    /\ lastCall = NoCall
    /\ \E op \in PopupOps, timeout \in 0..MaxTimeout,
          wnd \in [0..MaxTimeout -> {"found", "none", "raise"}], act \in Calls :
         /\ op = "fechar_popup_esc" => timeout = 1
         /\ LET existe == ExistePopupLoop(timeout, wnd, 0)
                r == IF op = "existe_popup"
                     THEN [ret |-> existe, emitidas |-> << >>]
                     ELSE FecharPopup(op, existe, act)
            IN  lastCall' = [op |-> op, timeout |-> timeout, wnd |-> wnd,
                             act |-> act, ret |-> r.ret,
                             emitidas |-> r.emitidas]
    /\ ops' = ops + 1
    /\ UNCHANGED stats
    /\ CallIdle

\* a validation that is not read a second time
ValidadaDeUmaVez(v1, v2) == v1

\* PASSO 5 of _preencher_organizacao: _validar_campo_preenchido gives v1,
\* and after time.sleep(1.0) gives v2
Validada(v1, v2) == v1 \/ v2

\* PreencherCompras._preencher_organizacao: _wait_for_element gives `campo`,
\* the write and the Enter return or raise; the operations issued and the
\* way the method ends
PreencherOrganizacao(campo, escrita, enter, v1, v2) ==
    IF ~campo
    THEN [ret |-> "PreencherComprasError",
          emitidas |-> << "_wait_for_element" >>]
    ELSE IF escrita = "raise"
    THEN [ret |-> "PreencherComprasError",
          emitidas |-> << "_wait_for_element", "text=:raise" >>]
    ELSE IF enter = "raise"
    THEN [ret |-> "PreencherComprasError",
          emitidas |-> << "_wait_for_element", "text=", "wait",
                          "sendVKey:raise" >>]
    ELSE [ret |-> IF Validada(v1, v2) THEN "true"
                  ELSE "PreencherComprasError",
          emitidas |-> << "_wait_for_element", "text=", "wait", "sendVKey",
                          "wait", "sleep(1.2)", "valida" >>
                       \o (IF v1 THEN << >> ELSE << "sleep(1.0)", "valida" >>)]

\* one call of _preencher_organizacao
PreencherOrganizacaoChamada ==
    /\ lastCall = NoCall
    /\ \E campo \in BOOLEAN, escrita \in Calls, enter \in Calls,
          v1 \in BOOLEAN, v2 \in BOOLEAN :
         LET r == PreencherOrganizacao(campo, escrita, enter, v1, v2)
         IN  lastCall' = [op |-> "_preencher_organizacao", campo |-> campo,
                          escrita |-> escrita, enter |-> enter,
                          v1 |-> v1, v2 |-> v2, ret |-> r.ret,
                          emitidas |-> r.emitidas]
    /\ ops' = ops + 1
    /\ UNCHANGED stats
    /\ CallIdle

\* the labels of column 88 of the dialog: a label that is not there, or its
\* text after strip(): a state, blanks, digits and possibly something more
Rotulos ==
    [existe : {TRUE}, uf : {"SP", "sp", "RJ"}, brancos : 0..1,
     digitos : 5..7, resto : BOOLEAN]

SemRotulo ==
    [existe |-> FALSE, uf |-> "", brancos |-> 0, digitos |-> 0,
     resto |-> FALSE]

RotuloVazio ==
    [existe |-> TRUE, uf |-> "", brancos |-> 0, digitos |-> 0,
     resto |-> FALSE]

\* padrao.match(domicilio) for re.compile(rf'^{estado_upper}\s+\d{{6,}}$'),
\* estado_upper being estado.upper().strip()
Casa(rotulo, estado) ==
    LET estado_upper == IF estado = "sp" THEN "SP" ELSE estado
    IN  /\ rotulo.uf # ""
        /\ rotulo.uf = estado_upper
        /\ rotulo.brancos >= 1
        /\ rotulo.digitos >= 6
        /\ ~rotulo.resto

\* PreencherDadosGerais._selecionar_domicilio_rapido from row i on: `linhas`
\* gives the label of each row of the dialog, `falhas` the operation that
\* raises on a row ("none" when both return)
RECURSIVE SelecionarDomicilioRapido(_, _, _, _)
SelecionarDomicilioRapido(linhas, falhas, estado, i) ==
    IF i >= Varredura
    THEN [achou |-> FALSE, linha |-> -1, lidas |-> << >>, emitidas |-> << >>]
    ELSE LET resto == SelecionarDomicilioRapido(linhas, falhas, estado, i + 1)
             segue(ops_) == [resto EXCEPT !.lidas = << i >> \o @,
                                          !.emitidas = ops_ \o @]
         IN  IF i \notin DOMAIN linhas \/ ~linhas[i].existe
             THEN segue(<< "lbl:raise" >>)
             ELSE IF ~Casa(linhas[i], estado)
             THEN segue(<< "lbl" >>)
             ELSE IF falhas[i] = "setFocus"
             THEN segue(<< "lbl", "setFocus:raise" >>)
             ELSE IF falhas[i] = "sendVKey"
             THEN segue(<< "lbl", "setFocus", "F2:raise" >>)
             ELSE [achou |-> TRUE, linha |-> i, lidas |-> << i >>,
                   emitidas |-> << "lbl", "setFocus", "F2" >>]

\* PreencherDadosGerais._tratar_popup_cep_otimizado: existe_popup(2) gives
\* `popup`; `primeira` is what the F2 of _selecionar_primeira_linha_popup does
TratarPopupCep(popup, linhas, falhas, estado, primeira) ==
    IF ~popup
    THEN [linha |-> -1, lidas |-> << >>, emitidas |-> << "existe_popup" >>]
    ELSE LET busca == SelecionarDomicilioRapido(linhas, falhas, estado, 0)
         IN  [linha |-> busca.linha, lidas |-> busca.lidas,
              emitidas |-> << "existe_popup" >> \o busca.emitidas
                  \o (IF busca.achou THEN << >>
                      ELSE IF primeira = "ok" THEN << "primeira" >>
                      ELSE << "primeira:raise" >>)
                  \o << "confirmar_popup" >>]

\* one call of _tratar_popup_cep_otimizado on a dialog of MaxLinhas rows in
\* which rows a and b carry one label and every other row another
TratarPopupCepChamada ==
    /\ lastCall = NoCall
    /\ \E popup \in BOOLEAN, a \in 0..(MaxLinhas - 1), b \in 0..(MaxLinhas - 1),
          r1 \in Rotulos, r2 \in {SemRotulo, RotuloVazio},
          fa \in {"none", "setFocus", "sendVKey"}, fb \in {"none", "sendVKey"},
          primeira \in Calls :
         /\ a <= b
         /\ popup \/ (a = 0 /\ b = 0 /\ r1.uf = "SP" /\ r1.brancos = 1
                        /\ r1.digitos = 6 /\ ~r1.resto /\ r2 = SemRotulo
                        /\ fa = "none" /\ fb = "none" /\ primeira = "ok")
         /\ a = b => fb = "none"
         /\ LET linhas == [i \in 0..(MaxLinhas - 1) |->
                              IF i \in {a, b} THEN r1 ELSE r2]
                falhas == [i \in 0..(MaxLinhas - 1) |->
                              IF i = a THEN fa ELSE IF i = b THEN fb
                              ELSE "none"]
                r == TratarPopupCep(popup, linhas, falhas, "sp", primeira)
            IN  lastCall' = [op |-> "_tratar_popup_cep_otimizado",
                             popup |-> popup, linhas |-> linhas,
                             falhas |-> falhas, estado |-> "sp",
                             linha |-> r.linha, lidas |-> r.lidas,
                             emitidas |-> r.emitidas]
    /\ ops' = ops + 1
    /\ UNCHANGED stats
    /\ CallIdle

CallNext ==
    \/ ManipuladorCamposInit
    \/ PreencherCampoChamada
    \/ EsperarElementoChamada
    \/ EnvoltorioChamada
    \/ PreencherDadosGeraisChamada
    \/ PopupChamada
    \/ PreencherOrganizacaoChamada
    \/ TratarPopupCepChamada

CallSpec == Init /\ [][CallNext]_vars

(***************************************************************************)
(* Properties.                                                             *)
(***************************************************************************)
Last(q) == q[Len(q)]

\* a step of the pipeline reported failure
StepFailed == \E i \in 1..Len(log) : log[i].out \in {"false", "raise"}

\* the checkpoints SalvarFornecedor was invoked for, and those it reported
\* as successful
Invoked == {SaveIndex(log[i].step) : i \in {j \in 1..Len(log) : log[j].step \in SaveSteps}}
Reported ==
    {SaveIndex(log[i].step) :
        i \in {j \in 1..Len(log) : log[j].step \in SaveSteps /\ log[j].out = "ok"}}

\* the log of a run in which every pipeline position ran once, in order
FullLog == [i \in 1..Len(Pipeline) |-> [step |-> Pipeline[i], out |-> "ok"]]

\* C1: once a pipeline step reported failure (False or an exception) no
\* later stage or checkpoint begins: every step that has a successor in the
\* log of begun steps reported success.
PipelineOrdering ==
    \A i \in 1..Len(log) : i < Len(log) => log[i].out = "ok"

\* a run aborted by the failure of checkpoint A, with nothing begun after it
PipelineOrderingWitness ==
    /\ pc = "done"
    /\ Len(log) = 6
    /\ Last(log) = [step |-> "save1", out |-> "false"]
    /\ result.prefix = "Falha no SAVE 1/3 (Empresas)"

\* C2: a run returns success only after connect, the six stages and the
\* three checkpoints ran in pipeline order, each exactly once, all reporting
\* success, with SalvarFornecedor invoked exactly three times.
SuccessOnlyInOrder ==
    result.success => (log = FullLog /\ ckptCalls = 3 /\ Invoked = {1, 2, 3})

SuccessOnlyInOrderWitness ==
    /\ pc = "done"
    /\ result.success
    /\ ckptCalls = 3

\* C3: stage modules never press the save control btn[11]; only
\* SalvarFornecedor does, so a successful run issues exactly three commit
\* gestures.
StagesNeverCommit ==
    /\ stageCommits = 0
    /\ result.success => stageCommits + ckptCommits = 3

\* the step a result message names, "none" when it names no step
NamedStep(r) ==
    CASE r.prefix = "Erro de conexão com SAP" -> "connect"
      [] \E s \in StageSteps \cup SaveSteps : r.prefix = FalseMessage(s) ->
           CHOOSE s \in StageSteps \cup SaveSteps : r.prefix = FalseMessage(s)
      [] r.prefix = "Erro durante a automação"
           /\ r.detail \in { "Campo de transação não encontrado",
                             "SAP não ficou pronto após 10s ao abrir XK01",
                             "Tela XK01 não carregou completamente - elementos críticos ausentes",
                             "Erro inesperado ao abrir transação XK01" } -> "transacao"
      [] OTHER -> "none"

\* C4: when a stage or checkpoint fails, by returning False or by raising,
\* the message of the run names that step.
FailureNamesStep ==
    (/\ pc = "done"
     /\ log # << >>
     /\ Last(log).step \in StageSteps \cup SaveSteps
     /\ Last(log).out \in {"false", "raise"})
        => NamedStep(result) = Last(log).step

\* C5: every stage module reports its outcome as a boolean: no exception
\* leaves its executar.
StagesReturnBoolean ==
    \A i \in 1..Len(log) : log[i].step \in StageSteps => log[i].out # "raise"

\* C6: no compensation.  The set of committed checkpoints only grows; once
\* a step reported failure nothing more is issued to the remote session, no
\* step begins and no commit is made; a finished run leaves checkpoints
\* 1..k committed, k being the number of commit presses that succeeded:
\* every checkpoint reported successful and no checkpoint that was not
\* invoked.
NoCompensation ==
    /\ [](/\ Reported \subseteq committed
          /\ committed \subseteq Invoked
          /\ committed = 1..Cardinality(committed)
          /\ ckptCommits = Cardinality(committed))
    /\ [][/\ committed \subseteq committed'
          /\ StepFailed =>
               /\ UNCHANGED << opTick, committed, stageCommits, ckptCommits,
                               ckptCalls, log >>
               /\ pc' = "done"]_vars

\* a run that failed in the attachment stage, checkpoints A and B committed
NoCompensationWitness ==
    /\ pc = "done"
    /\ ~result.success
    /\ log # << >>
    /\ Last(log) = [step |-> "anexos", out |-> "false"]
    /\ committed = {1, 2}

\* C7: every run terminates with exactly one (success, message) result:
\* executar reaches its return, the result is set there and never changes.
Terminates ==
    /\ <>(pc = "done" /\ result # NoResult)
    /\ [](pc = "done" <=> result # NoResult)
    /\ [][result # NoResult => result' = result]_vars

\* a finished run whose last checkpoint met a dead session
TerminatesWitness ==
    /\ pc = "done"
    /\ result # NoResult
    /\ Len(log) = Len(Pipeline)
    /\ deadAccess

\* C8: conectar never returns False nor leaves a null session behind a
\* return; when no attempt succeeds it retries, sleeping ConnectInterval
\* after each failed attempt, until ConnectTimeout has elapsed, and then
\* raises SAPConnectionError: no stage or checkpoint is started and the run
\* returns (False, connection-error message).
ConnectContract ==
    /\ log # << >> =>
         /\ log[1].step = "connect"
         /\ log[1].out \in {"running", "ok", "raise"}
         /\ log[1].out = "ok" => session = "sess"
         /\ log[1].out = "running" =>
              (pc = "connect" /\ tries * ConnectInterval <= elapsed)
         /\ log[1].out = "raise" =>
              /\ pc = "done"
              /\ result = [success |-> FALSE,
                           prefix |-> "Erro de conexão com SAP",
                           detail |-> "Não foi possível conectar ao SAP após 30s"]
              /\ Len(log) = 1
              /\ ckptCalls = 0
              /\ elapsed >= ConnectTimeout
              /\ tries >= 1
              /\ tries * ConnectInterval <= elapsed
              /\ elapsed - (ConnectInterval + MaxLatency) < ConnectTimeout
    /\ pc \notin {"load", "connect"} /\ log = << >> => pc = "done"

ConnectContractWitness ==
    /\ pc = "done"
    /\ log = << [step |-> "connect", out |-> "raise"] >>
    /\ tries = ConnectTimeout

\* C9: an access to an invalid session handle ends the run with the
\* connection-class result.
InvalidSessionIsFatal ==
    (pc = "done" /\ deadAccess) => result.prefix = "Erro de conexão com SAP"

\* C10: checkpoint happy path.  When the btn[11] press succeeded and no
\* popup was seen, the checkpoint never is in AwaitingConfirmation and never
\* presses the popup's btn[0]; it goes Idle, Saving, Verifying and, the
\* settle reads and the root window check passing, on to EditEnabled and
\* returns True.
HappyPath ==
    (ckPc = "ret" /\ "press" \notin ckErrors /\ ~ckModal) =>
        /\ ckConfirms = 0
        /\ \A i \in 1..Len(ckTrace) : ckTrace[i] # "AwaitingConfirmation"
        /\ SubSeq(ckTrace, 1, 3) = << "Idle", "Saving", "Verifying" >>
        /\ ~ckFault =>
             /\ ckTrace = << "Idle", "Saving", "Verifying", "EditEnabled" >>
             /\ ckRet = "true"

HappyPathWitness ==
    /\ ckPc = "ret"
    /\ ckTrace = << "Idle", "Saving", "Verifying", "EditEnabled" >>
    /\ ~ckModal
    /\ ckConfirms = 0
    /\ ckEdit = "pressed"
    /\ ckRet = "true"

\* C11: a remote operation that fails while a checkpoint is saving or
\* verifying (the btn[11] press, the confirmation of a popup that appeared,
\* a read of session.Busy made by executar, the findById("wnd[0]") check)
\* makes SalvarFornecedor.executar return False; btn[11] is pressed at most
\* once per invocation.
CheckpointFailureIsFatal ==
    /\ (ckPc = "ret" /\ ckErrors # {}) => ckRet = "false"
    /\ Cardinality({i \in 1..Len(ckTrace) : ckTrace[i] = "Saving"}) <= 1

Window == {t \in 0..MaxTimeout : t % PollSleep = 0 /\ t < wTimeout}

\* C13: _wait_sap_ready(timeout) returns False if and only if session.Busy
\* is clear at no instant of the clock within the timeout, and True if and
\* only if it is clear at one of them; a flag that cannot be read is not
\* clear.
ReadinessBoundary ==
    wRet # "none" =>
        /\ wRet = "false" <=> (\A t \in Window : wBusy[t] # "free")
        /\ wRet = "true" <=> (\E t \in Window : wBusy[t] = "free")

\* the flag was set at the first poll and clear at the second
ReadinessBoundaryWitness ==
    /\ wRet = "true"
    /\ wClock = PollSleep
    /\ wBusy[0] = "busy"
    /\ wBusy[PollSleep] = "free"

\* C14: _wait_sap_ready returns a boolean and never raises; a read of
\* session.Busy that raises counts as busy, and when every read raises the
\* call returns False once the timeout has elapsed.
WaitNeverRaises ==
    /\ wRet \in {"none", "true", "false"}
    /\ (wRet # "none" /\ \A t \in Window : wBusy[t] = "raise") =>
          (wRet = "false" /\ wClock >= wTimeout)
    /\ wRet = "none" => wClock < wTimeout + PollSleep

\* every read raised, the call polled until the timeout and returned False
WaitNeverRaisesWitness ==
    /\ wRet = "false"
    /\ wTimeout = MaxTimeout
    /\ wClock >= wTimeout
    /\ \A t \in Window : wBusy[t] = "raise"

\* C15: fallback chain.  A call of preencher_campo_texto with a non-blank
\* value, on a field of campos_sap.json whose direct write reads back blank,
\* leaves python_sucesso alone and, the keystrokes being typed, adds exactly
\* 1 to sendkeys_sucesso and returns True (when the typing raises it adds 1
\* to falha instead); python_sucesso grows, by 1, only in a call whose
\* direct read-back passed the test.
FallbackChain ==
    lastCall.op = "preencher_campo_texto" =>
        /\ (~lastCall.case.blank /\ lastCall.case.locator
               /\ lastCall.case.direct = "blank") =>
              /\ lastCall.py = 0
              /\ lastCall.case.fallback = "ok" =>
                    (lastCall.sk = 1 /\ lastCall.fa = 0 /\ lastCall.ret)
              /\ lastCall.case.fallback = "raise" =>
                    (lastCall.sk = 0 /\ lastCall.fa = 1 /\ ~lastCall.ret)
        /\ lastCall.py \in {0, 1}
        /\ lastCall.py = 1 => lastCall.case.direct \in {"same", "other"}

\* the first write of the run read back blank and was typed instead
FallbackChainWitness ==
    /\ lastCall.op = "preencher_campo_texto"
    /\ lastCall.case.direct = "blank"
    /\ lastCall.case.fallback = "ok"
    /\ lastCall.ret
    /\ stats = [python_sucesso |-> 0, sendkeys_sucesso |-> 1, falha |-> 0]

\* C16: every call of preencher_campo_texto, whatever the value, the
\* pressionar_enter flag and the behaviour of the session, adds 1 to exactly
\* one of python_sucesso, sendkeys_sucesso and falha, so the three add up to
\* the number of calls made.
EveryCallCounted ==
    lastCall.op = "preencher_campo_texto" =>
        lastCall.py + lastCall.sk + lastCall.fa = 1

\* C17: the three counters are 0 when the engine is built and never
\* decrease; they change only in a step of preencher_campo_texto: the other
\* methods of ManipuladorCamposSAP, GerenciadorPopups and every step of
\* SalvarFornecedor leave them as they are.
CountersFrame ==
    /\ [](pc \in {"load", "connect", "init"} => stats = ZeroStats)
    /\ [][/\ stats'.python_sucesso >= stats.python_sucesso
          /\ stats'.sendkeys_sucesso >= stats.sendkeys_sucesso
          /\ stats'.falha >= stats.falha
          /\ stats' # stats =>
                /\ ops' = ops + 1
                /\ lastCall'.op = "preencher_campo_texto"
                /\ pc \notin SaveSteps
          /\ (ops' = ops + 1 /\ lastCall'.op \in OtherOps) => stats' = stats
          /\ (pc \in SaveSteps \/ pc' \in SaveSteps) => stats' = stats]_vars

\* a checkpoint runs with a write counted before it
CountersFrameWitness ==
    /\ pc = "save1"
    /\ ckPc = "confirm"
    /\ Total(stats) > 0

\* C20: a run that ends after the field engine was built hands its caller
\* the statistics of the engine together with (sucesso, mensagem).
ReportsStatistics ==
    (pc = "done" /\ Len(log) >= 2) =>
        /\ "stats" \in DOMAIN result
        /\ result.stats = stats

\* the i-th call of the banking stage writes field campo
BankWrote(i, campo) ==
    /\ bankOps[i].op = "preencher_campo_texto"
    /\ bankOps[i].campo = campo

\* the key search of the banking stage returned False
KeySearchFailed ==
    /\ bankPc = "false"
    /\ \E i \in 1..Len(bankOps) : bankOps[i].op = "setFocus"

\* C19: when the banking stage is about to return True for a record whose
\* bank code, agency and account are not blank, its calls hold, in this
\* order, the write of the bank id, the opening of the key search, the
\* filling of the search with "*" + code + "*" + agency + "*", the selection
\* of the first matching row, the confirmation and the write of the account;
\* when none of its calls failed, python_sucesso is at least 1; the account
\* is not written when the key search returned False.
BankingOrdering ==
    /\ bankPc = "true" =>
          \E i1, i2, i3, i4, i5, i6 \in 1..Len(bankOps) :
             /\ i1 < i2 /\ i2 < i3 /\ i3 < i4 /\ i4 < i5 /\ i5 < i6
             /\ BankWrote(i1, "id_banco")
             /\ bankOps[i2].op = "sendVKey(4)"
             /\ bankOps[i3].op = "text"
             /\ bankOps[i3].valor =
                   "*" \o Strip(bankRec.codigo_banco) \o "*"
                       \o Strip(bankRec.agencia) \o "*"
             /\ bankOps[i4].op = "selecionar_primeira_linha"
             /\ bankOps[i5].op = "confirmar_popup"
             /\ BankWrote(i6, "conta_bancaria")
    /\ (bankPc = "true" /\ \A i \in 1..Len(bankOps) : bankOps[i].ret) =>
          stats.python_sucesso >= 1
    /\ KeySearchFailed =>
          \A i \in 1..Len(bankOps) : ~BankWrote(i, "conta_bancaria")

\* the indices from SweepDepth down to 1
Descending == [k \in 1..SweepDepth |-> SweepDepth + 1 - k]

\* _limpar_estado_popups is about to be called, or has just returned
Sweeping == anxPc \in {"limpar_inner", "limpar_outer", "ret_inner", "ret_outer"}

CheckpointSteps ==
    { << "Idle", "Saving" >>, << "Saving", "AwaitingConfirmation" >>,
      << "Saving", "Verifying" >>, << "AwaitingConfirmation", "Verifying" >>,
      << "Verifying", "EditEnabled" >>, << "Saving", "Failed" >>,
      << "Verifying", "Failed" >> }

\* C21: an invocation of SalvarFornecedor.executar starts in Idle and takes
\* only the transitions of CheckpointSteps; btn[11] is pressed first and
\* once; btn[0] of wnd[1] is pressed at most once and only when wnd[1] was
\* seen after a btn[11] press that returned; btn[6] is pressed only in
\* EditEnabled, that is after findById("wnd[0]") returned, never after a
\* failed btn[11] press or a failed verification.
CheckpointTransitions ==
    /\ ckTrace # << >> => ckTrace[1] = "Idle"
    /\ \A i \in 1..(Len(ckTrace) - 1) :
          << ckTrace[i], ckTrace[i + 1] >> \in CheckpointSteps
    /\ Cardinality({i \in 1..Len(ckTrace) : ckTrace[i] = "Saving"}) <= 1
    /\ (ckModal \/ ckConfirms > 0 \/ ckEdit # "none" \/ ckErrors # {}) =>
          (Len(ckTrace) >= 2 /\ ckTrace[2] = "Saving")
    /\ ckConfirms <= 1
    /\ ckConfirms > 0 =>
          /\ ckModal
          /\ "press" \notin ckErrors
          /\ \E i \in 1..Len(ckTrace) : ckTrace[i] = "AwaitingConfirmation"
    /\ ckModal => "press" \notin ckErrors
    /\ ckEdit # "none" =>
          /\ Last(ckTrace) = "EditEnabled"
          /\ ckErrors \cap {"press", "busy", "root"} = {}
          /\ ~ckFault

\* a checkpoint that saw wnd[1], confirmed it and pressed btn[6]
CheckpointTransitionsWitness ==
    /\ ckPc = "ret"
    /\ ckTrace = << "Idle", "Saving", "AwaitingConfirmation", "Verifying",
                    "EditEnabled" >>
    /\ ckModal
    /\ ckConfirms = 1
    /\ ckEdit = "pressed"

(***************************************************************************)
(* Dialogs across the stages.                                              *)
(***************************************************************************)

\* the search of the bank key ended on a dialog that did not open
BancoSemPopup ==
    /\ bankPc = "false"
    /\ bankOps # << >>
    /\ bankOps[Len(bankOps)].op = "existe_popup"

\* C37: a stage that fails on a dialog that did not appear runs the sweep
\* of the secondary windows before it reports the failure: the transaction
\* entry, the banking stage and the attachment stage alike.
ModalTimeoutSwept ==
    /\ [](anxFail \in {"popup1", "popup2"} => pc = "anexos")
    /\ [][/\ (/\ pc = "transacao"
              /\ pc' # "transacao"
              /\ result'.detail = "Popup de seleção de tipo não apareceu após 8s")
                 => sweepLog' # << >>
          /\ (pc = "bancarios" /\ pc' # "bancarios" /\ BancoSemPopup)
                 => \/ sweepLog # << >>
                    \/ \E k \in DOMAIN bankOps : bankOps[k].op = "sendVKey(12)"
          /\ (anxFail \in {"popup1", "popup2"} /\ anxFail' = "none")
                 => sweepLog # << >>]_vars

\* the dialogs the banking stage found open, by their position in bankOps
DialogosAbertos ==
    { k \in DOMAIN bankOps : bankOps[k].op = "existe_popup" /\ bankOps[k].ret }

\* the dialog found open at position k was confirmed or dismissed later on
Fechado(k) ==
    \E j \in DOMAIN bankOps :
        /\ j > k
        /\ \/ bankOps[j].op = "confirmar_popup" /\ bankOps[j].ret
           \/ bankOps[j].op = "sendVKey(12)"

\* C38: no dialog opened by a stage is still open when the checkpoint that
\* follows is invoked: a stage that returns success has confirmed or
\* dismissed every dialog it opened, a failed confirm included. The banking
\* stage is the stage before checkpoint A whose dialog is followed
\* operation by operation.
DialogsClosedOnSuccess ==
    [][(pc = "bancarios" /\ pc' = Successor("bancarios"))
          => \A k \in DialogosAbertos : Fechado(k)]_vars

(***************************************************************************)
(* The calls of the engine taken on their own (CallSpec).                  *)
(***************************************************************************)

\* the call recorded is one of preencher_campo_texto
CampoChamado == lastCall.op = "preencher_campo_texto"

\* the positions of lastCall.emitidas that hold one of the operations ks
Posicoes(ks) == {i \in DOMAIN lastCall.emitidas : lastCall.emitidas[i] \in ks}

\* the instants of a wait for an element that lie before its timeout
Instantes == 0..(lastCall.timeout - 1)

\* C22: a wait for an element whose locator is known ends with a boolean
\* and never by raising: true (the element itself, for
\* buscar_elemento_por_name) exactly when the element resolves at an instant
\* before the timeout, every failed resolution before it having been
\* retried, and false when the timeout elapses with the element never
\* resolved, the error of the last failed resolution being kept.
ElementWaitContract ==
    (lastCall.op \in ElementWaits /\ lastCall.locator) =>
        LET achou == \E t \in Instantes : lastCall.finds[t] = "found"
            ultimo == CHOOSE t \in Instantes : \A u \in Instantes : u <= t
        IN  /\ lastCall.ret \in {"true", "element", "false"}
            /\ lastCall.ret \in {"true", "element"} <=> achou
            /\ (lastCall.ret = "false" /\ Instantes # {})
                  => lastCall.last = lastCall.finds[ultimo]

DirectStrategy ==
    (CampoChamado /\ lastCall.case.direct # "none") =>
        LET fallbackRan == Posicoes({"findById", "findById:raise"}) # {}
        IN  /\ lastCall.case.direct \in {"same", "other"}
                  <=> (lastCall.py = 1 /\ lastCall.ret /\ ~fallbackRan)
            /\ lastCall.case.direct \in {"blank", "raise"} => fallbackRan

\* C27: after the keystrokes of the fallback, sendkeys_sucesso is counted
\* when the re-verification accepts the read-back and falha when it rejects
\* it; a rejected read-back is never counted as sendkeys_sucesso.
FallbackVerdict ==
    (CampoChamado /\ lastCall.case.lido = "text") =>
        IF AceitaRevalidacao(lastCall.case)
        THEN lastCall.sk = 1 /\ lastCall.fa = 0 /\ lastCall.ret
        ELSE lastCall.sk = 0 /\ lastCall.fa = 1 /\ ~lastCall.ret

\* each reserved character of s wrapped once in braces, the others as they
\* are
RECURSIVE EscapadoUmaVez(_)
EscapadoUmaVez(s) ==
    IF s = << >> THEN << >>
    ELSE (IF \E k \in DOMAIN Reservados : Reservados[k] = Head(s)
          THEN << "{", Head(s), "}" >> ELSE << Head(s) >>)
            \o EscapadoUmaVez(Tail(s))

\* C28: the keystroke string of the fallback holds every reserved character
\* of the value wrapped once in braces and every other character as it is,
\* and decodes back to the value.
EscapeRoundTrip ==
    (CampoChamado /\ lastCall.case.fallback = "ok") =>
        /\ lastCall.teclas = EscapadoUmaVez(lastCall.case.valor)
        /\ Decodificar(lastCall.teclas) = lastCall.case.valor

\* C29: with pressionar_enter a call that returns True sends the commit key
\* exactly once, after a read-back that was accepted, and ends with a
\* _wait_sap_ready made after the key; without pressionar_enter, or when
\* the call returns False, no commit key is sent.
CommitKeyOnce ==
    CampoChamado =>
        LET teclas == Posicoes({"sendVKey", "SendKeys:{ENTER}"})
            n == Len(lastCall.emitidas)
        IN  IF lastCall.case.enter /\ lastCall.ret
            THEN /\ Cardinality(teclas) = 1
                 /\ \A k \in teclas :
                      /\ \E i \in Posicoes({"text?"}) : i < k
                      /\ k < n /\ lastCall.emitidas[n] = "wait"
                 /\ lastCall.case.lido = "text"
                      => AceitaRevalidacao(lastCall.case)
            ELSE teclas = {}

\* C30: selecionar_combo, marcar_checkbox, pressionar_botao and
\* selecionar_aba start with a _wait_sap_ready; a call that returns True
\* made its remote operation and a _wait_sap_ready after it; a call whose
\* element is not found or whose operation raises returns False.
WrapperContract ==
    lastCall.op \in Envoltorios =>
        LET n == Len(lastCall.emitidas)
            feita == Posicoes({OperacaoRemota(lastCall.op)})
        IN  /\ lastCall.emitidas[1] = "wait"
            /\ lastCall.ret =>
                 /\ feita # {}
                 /\ \A k \in feita : \E i \in Posicoes({"wait"}) : i > k
            /\ (~lastCall.locator \/ lastCall.busca # "element"
                  \/ lastCall.act = "raise") => ~lastCall.ret

\* a window stands at wnd[1] at some poll of the call recorded
PopupVisto == \E t \in Instantes : lastCall.wnd[t] = "found"

\* C31: existe_popup returns True exactly when wnd[1] is found at a poll
\* before its timeout.  confirmar_popup and fechar_popup_esc issue their
\* press or cancel key exactly when the dialog is found: the operation that
\* returns is followed by _wait_sap_ready and the method returns True; when
\* no dialog is found nothing is issued and the method returns False, as it
\* does when the operation raises.  Every call ends with a boolean.
ModalManager ==
    lastCall.op \in PopupOps =>
        /\ lastCall.ret \in BOOLEAN
        /\ lastCall.op = "existe_popup" =>
             /\ lastCall.ret <=> PopupVisto
             /\ lastCall.emitidas = << >>
        /\ lastCall.op # "existe_popup" =>
             /\ lastCall.emitidas # << >> <=> PopupVisto
             /\ lastCall.ret <=> (PopupVisto /\ lastCall.act = "ok")
             /\ lastCall.ret =>
                  lastCall.emitidas = << AcaoNoPopup(lastCall.op), "wait" >>

\* confirmar_popup found the dialog after a poll that found none, pressed
\* and returned True
ModalManagerWitness ==
    /\ lastCall.op = "confirmar_popup"
    /\ lastCall.timeout > 1
    /\ lastCall.wnd[0] # "found"
    /\ lastCall.ret
    /\ lastCall.emitidas = << "press", "wait" >>

\* the call recorded is one of _preencher_organizacao in which the field
\* was found and the write and the Enter returned
OrganizacaoEscrita ==
    /\ lastCall.op = "_preencher_organizacao"
    /\ lastCall.campo
    /\ lastCall.escrita = "ok"
    /\ lastCall.enter = "ok"

\* C35: when the assignment of the purchasing organisation keeps failing
\* its verification, the write of the unit is made at least 2 and at most 3
\* times before the method reports failure; after a verification that
\* succeeded the unit is not written again.
OrganizationRetried ==
    OrganizacaoEscrita =>
        /\ lastCall.ret # "true"
              => Cardinality(Posicoes({"text="})) \in 2..3
        /\ lastCall.ret = "true"
              => Cardinality(Posicoes({"text="})) = 1

\* C35, amended: the unit is written and the commit key sent exactly once;
\* it is the verification that is repeated: read once, and once more after
\* a fixed sleep when the first reading fails, the method reporting failure
\* exactly when both readings fail; nothing follows a reading that
\* succeeded.
OrganizationVerifiedTwice ==
    OrganizacaoEscrita =>
        LET lidas == Posicoes({"valida"})
            n == Len(lastCall.emitidas)
        IN  /\ Cardinality(Posicoes({"text="})) = 1
            /\ Cardinality(Posicoes({"sendVKey"})) = 1
            /\ lastCall.emitidas[n] = "valida"
            /\ Cardinality(lidas) = (IF lastCall.v1 THEN 1 ELSE 2)
            /\ Cardinality(lidas) = 2 => lastCall.emitidas[n - 1] = "sleep(1.0)"
            /\ lastCall.ret = "true" <=> (lastCall.v1 \/ lastCall.v2)
            /\ lastCall.ret \in {"true", "PreencherComprasError"}

\* the first reading failed and the second, after the sleep, succeeded
OrganizationVerifiedTwiceWitness ==
    /\ OrganizacaoEscrita
    /\ ~lastCall.v1
    /\ lastCall.v2
    /\ lastCall.ret = "true"

\* the rows of the dialog recorded whose label matches the pattern
LinhasQueCasam ==
    { i \in DOMAIN lastCall.linhas :
         lastCall.linhas[i].existe /\ Casa(lastCall.linhas[i], lastCall.estado) }

\* the selections a call issued: the F2 on a row and the F2 of the fallback
Selecoes == Posicoes({"F2", "F2:raise", "primeira", "primeira:raise"})

\* C36: when the dialog appears the rows are read in ascending order, at
\* most 10 of them, and the first row whose label matches the pattern of
\* the state is selected; the fallback is issued exactly once when no row
\* read matches and not otherwise; in either case exactly one selection is
\* issued, and then exactly one confirm; when the dialog never appears
\* neither a selection nor a confirm is issued.
DomicileSelection ==
    lastCall.op = "_tratar_popup_cep_otimizado" =>
        LET lidas == lastCall.lidas
            casam == { i \in LinhasQueCasam : i < Varredura }
            n == Len(lastCall.emitidas)
        IN  /\ ~lastCall.popup =>
                  Selecoes = {} /\ Posicoes({"confirmar_popup"}) = {}
            /\ lastCall.popup =>
                  /\ Len(lidas) <= Varredura
                  /\ \A k \in DOMAIN lidas : lidas[k] = k - 1
                  /\ casam # {} =>
                        /\ lastCall.linha \in casam
                        /\ \A j \in casam : lastCall.linha <= j
                        /\ Posicoes({"primeira", "primeira:raise"}) = {}
                  /\ casam = {} =>
                        /\ lastCall.linha = -1
                        /\ Cardinality(Posicoes({"primeira", "primeira:raise"})) = 1
                  /\ Cardinality(Selecoes) = 1
                  /\ Posicoes({"confirmar_popup"}) = {n}
                  /\ \A p \in Selecoes : p < n

\* C25: preencher_dados_gerais returns False when the write of the company
\* name, mandatory for the stage, returned False on a field the map holds,
\* and makes no further write; a failed write of a field that is not
\* mandatory leaves the value returned as it is.
MandatoryWriteAborts ==
    lastCall.op = "preencher_dados_gerais" =>
        \A i \in DOMAIN lastCall.escritas :
            (/\ lastCall.escritas[i].campo = "nome_empresa"
             /\ lastCall.escritas[i].locator
             /\ ~lastCall.escritas[i].ret)
                => ~lastCall.ret /\ i = Len(lastCall.escritas)

(***************************************************************************)
(* The banking stage and the outcomes of the engine.                       *)
(***************************************************************************)

\* C24: a write of the banking stage that ends in the element-not-found
\* clause is the last field interaction of the stage, which stands at its
\* "return False".
NotFoundAborts ==
    (/\ pc = "bancarios"
     /\ lastCall.op = "preencher_campo_texto"
     /\ ~lastCall.case.locator)
        => bankPc = "false"

(***************************************************************************)
(* The attachment stage.                                                   *)
(***************************************************************************)

\* entries of the list adicionar_anexos is done with
AnexosFeitos == anxSucesso + anxFalha

\* _anexar_arquivo_individual is at one of its own steps
Anexando ==
    anxPc \in {"file", "gos", "link", "popup1", "pc", "popup2", "path",
               "confirm"}

\* C32: adicionar_anexos attempts every entry of the list once, one after
\* the other, whatever became of the entries before it: an attempt in
\* progress is that of the first entry not yet counted, every step counts
\* at most one entry, and the loop ends with all of them counted.  An entry
\* that fails adds exactly 1 to falha, and the next entry (or the end of
\* the loop) is reached only from a _limpar_estado_popups that has run.
AttachmentLoop ==
    /\ [](pc = "anexos" =>
            /\ AnexosFeitos <= anxN
            /\ Anexando => (AnexosFeitos < anxN /\ anxFail = "none")
            /\ anxPc = "fim" => (AnexosFeitos = anxN /\ anxFail = "none")
            /\ anxPc \in {"limpar_outer", "ret_outer"}
                  => (anxFail # "none" /\ anxFalha >= 1))
    /\ [][(pc = "anexos" /\ pc' = "anexos" /\ anxPc # "idle") =>
            /\ anxN' = anxN
            /\ anxSucesso' \in {anxSucesso, anxSucesso + 1}
            /\ anxFalha' \in {anxFalha, anxFalha + 1}
            /\ AnexosFeitos' <= AnexosFeitos + 1
            /\ (anxFail = "none" /\ anxFail' # "none")
                  => (/\ Anexando
                      /\ anxPc' \in {"limpar_inner", "limpar_outer"}
                      /\ anxSucesso' = anxSucesso)
            /\ (anxPc # "limpar_outer" /\ anxPc' = "limpar_outer")
                  <=> anxFalha' = anxFalha + 1
            /\ (anxFail # "none" /\ anxFail' = "none")
                  => (/\ anxPc = "ret_outer"
                      /\ sweepLog # << >>
                      /\ anxFalha' = anxFalha)]_vars

\* an entry failed, its recovery ran, and the next entry is being attempted
AttachmentLoopWitness ==
    /\ pc = "anexos"
    /\ anxPc = "gos"
    /\ anxFalha = 1
    /\ anxSucesso = 0

\* C33: when no entry is available (adicionar_anexos ends on its first
\* step: the list is empty, every listed file is missing, or the list
\* cannot be had) the stage issues no operation, yields True and executar
\* goes on to "SAVE 3/3".
NoDescriptorNonFatal ==
    [][(pc = "anexos" /\ anxPc = "idle" /\ pc' # "anexos") =>
          (pc' = "save3" /\ opTick' = opTick)]_vars

AttachmentVerdict ==
    [][(pc = "anexos" /\ pc' # "anexos") =>
          /\ pc' = "save3" <=> anxFalha = 0
          /\ anxFalha > 0 =>
                /\ anxPc = "fim" /\ AnexosFeitos = anxN
                /\ pc' = "done"
                /\ result' = [success |-> FALSE,
                              prefix |-> FalseMessage("anexos"),
                              detail |-> ""]
                /\ ckptCalls' = 2
                /\ committed' = {1, 2}]_vars

====
